---- MODULE Spec2Model ----
(***************************************************************************)
(* Scenario simulation engines of the advisory platform:                   *)
(*   - GameTheorySimulator      (src/src/models/GameTheory.ts)             *)
(*   - EPRSimulator             (src/src/models/EPR.ts, lines 15-305)      *)
(*   - EvolutionarySimulator    (src/src/models/EPR.ts, lines 316-571)     *)
(*   - ProspectTheorySimulator  (src/src/models/ProspectTheory.ts)         *)
(*   - WorkflowEngine           (src/src/core/WorkflowEngine.ts)           *)
(* Each engine is a state machine of its own (SpecGame, SpecEPR, SpecEvo,  *)
(* SpecPT, SpecWorkflow); the variables of the engines that do not run     *)
(* keep their idle values. SpecCalls runs simulate() or evolve() more than *)
(* once on the same instance of an engine, SpecCompare runs                *)
(* ProspectTheorySimulator.compareAgents and SpecBusiness runs             *)
(* EvolutionarySimulator.evolveBusinessModel.                              *)
(*                                                                         *)
(* Indices: JavaScript arrays are 0-based, TLA+ sequences 1-based.         *)
(* Strategy indices keep their JavaScript values (0 .. k-1); players,      *)
(* agents and array positions are numbered from 1.                          *)
(***************************************************************************)
EXTENDS Integers, Sequences, FiniteSets, TLC

VARIABLES
    \* ---- GameTheorySimulator
    gtConfig,          \* this.config: players, strategies, payoffs, iterations
    playerStrategies,  \* simulate(): let playerStrategies
    strategyHistory,   \* simulate(): const strategyHistory
    convergence,       \* simulate(): const convergence
    gtIter,            \* simulate(): loop counter iter
    gtPc,              \* position in simulate(): "loop", "return", "done", "error"
    gtResult,          \* the GameTheoryResult returned
    \* ---- EPRSimulator
    eprScenario,       \* this.scenario
    eprState,          \* this.state
    eprAgents,         \* this.agents
    eprHistory,        \* simulate(): const history
    eprStep,           \* simulate(): loop counter step
    eprZone,           \* simulate(): const zone of the current step
    eprAgentIdx,       \* simulate(): position of the for-of loop over the agents
    eprAction,         \* executeAgentAction(): const action of the last call
    eprReward,         \* value returned by the last calculateReward call
    eprPc,             \* position in simulate(): "loop", "agents", "dynamics", "done"
    eprResult,         \* the EPRSimulationResult returned
    \* ---- EvolutionarySimulator
    evoConfig,         \* this.config
    population,        \* this.population
    generationHistory, \* this.generationHistory
    newPopulation,     \* evolveGeneration(): const newPopulation
    evoGen,            \* evolve(): loop counter gen
    evoPc,             \* position in evolve(): "loop", "breed", "done"
    evoResult,         \* the EvolutionaryResult returned
    fitnessCallback,   \* evolve(): the fitnessCallback argument
    scenarioIndex,     \* evolveBusinessModel(): let scenarioIndex of the callback
    \* ---- ProspectTheorySimulator
    ptConfig,          \* this.config
    ptAgents,          \* this.agents
    ptArgs,            \* the caller's calls: initialize or not, arguments
    ptSeries,          \* simulate(): const wealth, riskPropensity, decisions
    ptStep,            \* simulate(): loop counter step
    ptPc,              \* "new", "ready", "loop", "done", "error"
    ptResult,          \* the ProspectTheoryResult returned
    \* ---- the caller of an engine
    callNo,            \* number of the simulate()/evolve() call on the instance
    earlier,           \* the result object the previous call returned
    \* ---- ProspectTheorySimulator.compareAgents
    cmpSaved,          \* compareAgents(): const savedAgents
    cmpAlias,          \* for each element of this.agents, its position in
                       \* savedAgents (the same object), 0 for a new object
    cmpPhase,          \* "none", "knowledgeable", "lok", "returned"
    cmpResult,         \* the record compareAgents returns
    \* ---- WorkflowEngine
    workflows,         \* this.workflows: the workflows registered
    executions,        \* this.executions: uuid -> WorkflowExecution
    wfCalls            \* the executeWorkflow calls: arguments, position, the
                       \* execution object returned

gtVars == <<gtConfig, playerStrategies, strategyHistory, convergence, gtIter,
            gtPc, gtResult>>

eprVars == <<eprScenario, eprState, eprAgents, eprHistory, eprStep, eprZone,
             eprAgentIdx, eprAction, eprReward, eprPc, eprResult>>

evoVars == <<evoConfig, population, generationHistory, newPopulation, evoGen,
             evoPc, evoResult, fitnessCallback, scenarioIndex>>

ptVars == <<ptConfig, ptAgents, ptArgs, ptSeries, ptStep, ptPc, ptResult>>

callVars == <<callNo, earlier>>

cmpVars == <<cmpSaved, cmpAlias, cmpPhase, cmpResult>>

wfVars == <<workflows, executions, wfCalls>>

vars == <<gtVars, eprVars, evoVars, ptVars, callVars, cmpVars, wfVars>>

\* what an engine leaves alone: the variables of the other engines and of
\* the caller
gtOthers == <<eprVars, evoVars, ptVars, callVars, cmpVars, wfVars>>

eprOthers == <<gtVars, evoVars, ptVars, callVars, cmpVars, wfVars>>

evoOthers == <<gtVars, eprVars, ptVars, callVars, cmpVars, wfVars>>

ptOthers == <<gtVars, eprVars, evoVars, callVars, cmpVars, wfVars>>

(***************************************************************************)
(* Bounds of the model.                                                    *)
(***************************************************************************)
MaxIterations == 4

\* largest step count of an EPR scenario
MaxSteps == 2

\* largest generation count of an evolutionary run
MaxGenerations == 2

\* largest nAgents given to ProspectTheorySimulator.initialize
MaxAgents == 3

\* largest number of simulate()/evolve() calls on one instance
MaxCalls == 2

\* largest number of steps of a registered workflow
MaxWorkflowSteps == 2

\* number of executeWorkflow calls in flight on one engine
MaxExecutions == 2

\* payoffs the enumerated 2x2 games draw their entries from
PayoffValues == {0, 1}

(***************************************************************************)
(* JavaScript values that reach a comparison or `||`: numbers, arrays,     *)
(* undefined and -Infinity.                                                *)
(***************************************************************************)
Num(x) == [tag |-> "num", v |-> x]

Arr(a) == [tag |-> "arr", v |-> a]

Undefined == [tag |-> "undefined", v |-> 0]

NegInfinity == [tag |-> "-inf", v |-> 0]

\* a > b of JavaScript. An array of three numbers converts to NaN and
\* undefined converts to NaN: every comparison with NaN is false.
JsGreater(a, b) ==
    /\ a.tag = "num"
    /\ \/ b.tag = "-inf"
       \/ b.tag = "num" /\ a.v > b.v

\* a || b of JavaScript: undefined and the number 0 are falsy, an array is not.
JsOr(a, b) ==
    IF a.tag = "undefined" \/ (a.tag = "num" /\ a.v = 0) THEN b ELSE a

(***************************************************************************)
(* GameTheorySimulator                                                     *)
(***************************************************************************)
\* payoffs of the constructor's default configuration
DefaultPayoffs ==
    << << <<3, 3>>, <<1, 4>> >>,
       << <<4, 1>>, <<2, 2>> >> >>

PrisonersDilemmaPayoffs ==
    << << <<3, 3>>, <<0, 5>> >>,
       << <<5, 0>>, <<1, 1>> >> >>

CoordinationPayoffs ==
    << << <<2, 2>>, <<0, 0>> >>,
       << <<0, 0>>, <<1, 1>> >> >>

HawkDovePayoffs ==
    << << <<-10, -10>>, <<4, 1>> >>,
       << <<1, 4>>, <<2, 2>> >> >>

GameConfig(n, labels, pay, iters) ==
    [players |-> n, strategies |-> labels, payoffs |-> pay, iterations |-> iters]

prisonersDilemma(iterations) ==
    GameConfig(2, <<"Cooperate", "Defect">>, PrisonersDilemmaPayoffs, iterations)

coordinationGame(iterations) ==
    GameConfig(2, <<"Strategy A", "Strategy B">>, CoordinationPayoffs, iterations)

hawkDove(iterations) ==
    GameConfig(2, <<"Hawk", "Dove">>, HawkDovePayoffs, iterations)

federationDilemma(iterations) ==
    GameConfig(2, <<"Share Data", "Hoard Data">>, DefaultPayoffs, iterations)

\* A three-player game given as a full tensor payoffs[s0][s1][s2][player]: every
\* player earns 2 for each cooperator (strategy 0) among the three and 3 more
\* when defecting (strategy 1) itself, so Defect is each player's best response.
PublicGoodsPayoffs ==
    [a \in 1..2 |-> [b \in 1..2 |-> [c \in 1..2 |->
        LET coop == (2 - a) + (2 - b) + (2 - c)
        IN  << 2 * coop + 3 * (a - 1),
               2 * coop + 3 * (b - 1),
               2 * coop + 3 * (c - 1) >> ]]]

publicGoods(iterations) ==
    GameConfig(3, <<"Cooperate", "Defect">>, PublicGoodsPayoffs, iterations)

\* every two-player, two-strategy game with payoffs in PayoffValues
EnumeratedPayoffs == [1..2 -> [1..2 -> [1..2 -> PayoffValues]]]

\* A two-player game with three strategies: player 0 earns 0 with strategy 0
\* and 2 with strategy 1 or 2, player 1 earns 1 when it matches player 0.
TiedPayoffs ==
    [i \in 1..3 |-> [j \in 1..3 |->
        << IF i = 1 THEN 0 ELSE 2, IF j = i THEN 1 ELSE 0 >> ]]

tiedGame(iterations) ==
    GameConfig(2, <<"Low", "High", "Other">>, TiedPayoffs, iterations)

\* one payoff per strategy profile where two players need two
OnePayoffPerProfile ==
    << << <<3>>, <<1>> >>,
       << <<4>>, <<2>> >> >>

\* Configurations the constructor is given that are not games: no player, no
\* strategy, a payoff vector shorter than the player count, an empty payoff
\* array, and the default 2x2 payoffs under three strategy labels.
MalformedConfigs(iterations) ==
    { GameConfig(0, <<"Cooperate", "Defect">>, DefaultPayoffs, iterations),
      GameConfig(2, <<>>, DefaultPayoffs, iterations),
      GameConfig(2, <<"Cooperate", "Defect">>, OnePayoffPerProfile, iterations),
      GameConfig(2, <<"Cooperate", "Defect">>, <<>>, iterations),
      GameConfig(2, <<"A", "B", "C">>, DefaultPayoffs, iterations) }

GameConfigs ==
    UNION { { prisonersDilemma(t), coordinationGame(t), hawkDove(t),
              federationDilemma(t), publicGoods(t), tiedGame(t) }
            \cup { GameConfig(2, <<"A", "B">>, pay, t) : pay \in EnumeratedPayoffs }
            \cup MalformedConfigs(t)
          : t \in 0..MaxIterations }

NumStrategies == Len(gtConfig.strategies)

Players == 1..gtConfig.players

\* lines 23-25: Math.floor(Math.random() * strategies.length) for each player,
\* which is 0 when there is no strategy
Profiles ==
    [Players -> IF NumStrategies = 0 THEN {0} ELSE 0..(NumStrategies - 1)]

\* payoffs[i][j] is read from undefined, or its entry [l] is: a TypeError
LookupThrows(i, j) ==
    LET pay == gtConfig.payoffs
    IN  (i + 1) \notin DOMAIN pay \/ (j + 1) \notin DOMAIN pay[i + 1]

\* getPayoff raises a TypeError
getPayoffThrows(strategies) ==
    IF Len(strategies) = 2
    THEN LookupThrows(strategies[1], strategies[2])
    ELSE LookupThrows(0, 0)

\* findBestResponse raises a TypeError: one of the candidates' lookups does
findBestResponseThrows(player, currentStrategies) ==
    \E strategy \in 0..(NumStrategies - 1) :
        getPayoffThrows([currentStrategies EXCEPT ![player] = strategy])

\* calculatePayoffs raises a TypeError
calculatePayoffsThrows(strategies) ==
    Players # {} /\ getPayoffThrows(strategies)

\* payoffs[i][j][l] of JavaScript on the nested array of the configuration
\* where the lookup does not throw: a number in a two-player game, a
\* sub-array in a three-player game, undefined when l is out of range.
PayoffsAt(i, j, l) ==
    LET pay == gtConfig.payoffs
    IN  IF (i + 1) \notin DOMAIN pay THEN Undefined
        ELSE IF (j + 1) \notin DOMAIN pay[i + 1] THEN Undefined
        ELSE IF (l + 1) \notin DOMAIN pay[i + 1][j + 1] THEN Undefined
        ELSE IF gtConfig.players = 2 THEN Num(pay[i + 1][j + 1][l + 1])
        ELSE Arr(pay[i + 1][j + 1][l + 1])

\* getPayoff with the two index positions exchanged
getPayoff_Transposed(player, strategies) ==
    IF Len(strategies) = 2
    THEN PayoffsAt(strategies[2], strategies[1], player - 1)
    ELSE JsOr(PayoffsAt(0, 0, player - 1), Num(0))

getPayoff(player, strategies) ==
    IF Len(strategies) = 2
    THEN PayoffsAt(strategies[1], strategies[2], player - 1)
    ELSE JsOr(PayoffsAt(0, 0, player - 1), Num(0))

\* a candidate that also replaces the best one on an equal payoff
IsBetter_OrEqual(payoff, bestPayoff) ==
    JsGreater(payoff, bestPayoff) \/ payoff = bestPayoff

\* line 68: payoff > bestPayoff
IsBetter(payoff, bestPayoff) == JsGreater(payoff, bestPayoff)

\* the for loop of findBestResponse from candidate `strategy` on
RECURSIVE BestResponseFrom(_, _, _, _, _)
BestResponseFrom(player, currentStrategies, strategy, bestStrategy, bestPayoff) ==
    IF strategy >= NumStrategies THEN bestStrategy
    ELSE LET testStrategies == [currentStrategies EXCEPT ![player] = strategy]
             payoff == getPayoff(player, testStrategies)
         IN  IF IsBetter(payoff, bestPayoff)
             THEN BestResponseFrom(player, currentStrategies, strategy + 1,
                                   strategy, payoff)
             ELSE BestResponseFrom(player, currentStrategies, strategy + 1,
                                   bestStrategy, bestPayoff)

findBestResponse(player, currentStrategies) ==
    BestResponseFrom(player, currentStrategies, 0, 0, NegInfinity)

\* strategies[s] of line 51
StrategyLabel(s) ==
    IF (s + 1) \in DOMAIN gtConfig.strategies
    THEN gtConfig.strategies[s + 1] ELSE "undefined"

\* every player answers the profile the round started from
UpdatePlayers_Simultaneous(player, strategies) ==
    [p \in DOMAIN strategies |-> findBestResponse(p, strategies)]

\* the inner for loop of simulate (lines 35-38) from `player` on: each best
\* response is written into playerStrategies before the next player answers
RECURSIVE UpdatePlayers(_, _)
UpdatePlayers(player, strategies) ==
    IF player > Len(strategies) THEN strategies
    ELSE UpdatePlayers(player + 1,
             [strategies EXCEPT ![player] = findBestResponse(player, strategies)])

\* the inner for loop of simulate from `player` on raises a TypeError
RECURSIVE UpdateThrows(_, _)
UpdateThrows(player, strategies) ==
    IF player > Len(strategies) THEN FALSE
    ELSE \/ findBestResponseThrows(player, strategies)
         \/ UpdateThrows(player + 1,
                [strategies EXCEPT ![player] = findBestResponse(player, strategies)])

\* number of positions where two profiles agree
Matches(current, previous) ==
    Cardinality({i \in DOMAIN current : current[i] = previous[i]})

\* A convergence value is the fraction num / den; 0 / 0 is NaN.
Fraction(n, d) == [num |-> n, den |-> d]

FractionEq(f, g) == f.num * g.den = g.num * f.den

\* the test of line 44 with 0.49 in place of 0.99
Converged_Half(f) == f.num * 100 > 49 * f.den

\* f > 0.99
Converged(f) == f.num * 100 > 99 * f.den

IsOne(f) == f.den # 0 /\ f.num = f.den

\* calculateConvergence counting the positions that differ
calculateConvergence_Mismatches(history) ==
    IF Len(history) < 2 THEN Fraction(0, 1)
    ELSE LET current  == history[Len(history)]
             previous == history[Len(history) - 1]
         IN  Fraction(Len(current) - Matches(current, previous), Len(current))

calculateConvergence(history) ==
    IF Len(history) < 2 THEN Fraction(0, 1)
    ELSE LET current  == history[Len(history)]
             previous == history[Len(history) - 1]
         IN  Fraction(Matches(current, previous), Len(current))

calculatePayoffs(strategies) ==
    [player \in Players |-> getPayoff(player, strategies)]

NoResult == [equilibrium |-> <<>>, payoffs |-> <<>>, convergence |-> <<>>,
             iterations |-> -1]

\* new GameTheorySimulator(config) and the start of simulate(): the loop is
\* about to test iter = 0 with a random initial profile
GameInit ==
    /\ gtConfig \in GameConfigs
    /\ playerStrategies \in Profiles
    /\ strategyHistory = <<>>
    /\ convergence = <<>>
    /\ gtIter = 0
    /\ gtPc = "loop"
    /\ gtResult = NoResult

GameIdle ==
    /\ gtConfig = prisonersDilemma(0)
    /\ playerStrategies = <<0, 0>>
    /\ strategyHistory = <<>>
    /\ convergence = <<>>
    /\ gtIter = 0
    /\ gtPc = "idle"
    /\ gtResult = NoResult

\* the loop condition with <= in place of <
LoopCondition_Inclusive == gtIter <= gtConfig.iterations

\* iter < iterations (line 31)
LoopCondition == gtIter < gtConfig.iterations

\* one pass of the loop body of simulate (lines 31-45)
GameRound ==
    /\ UNCHANGED gtOthers
    /\ gtPc = "loop"
    /\ LoopCondition
    /\ LET history   == Append(strategyHistory, playerStrategies)
           converged == calculateConvergence(history)
       IN  /\ strategyHistory' = history
           /\ IF UpdateThrows(1, playerStrategies)
              THEN /\ gtPc' = "error"
                   /\ UNCHANGED <<playerStrategies, convergence, gtIter>>
              ELSE /\ playerStrategies' = UpdatePlayers(1, playerStrategies)
                   /\ convergence' = Append(convergence, converged)
                   /\ IF Converged(converged)
                      THEN gtPc' = "return" /\ gtIter' = gtIter
                      ELSE gtPc' = "loop" /\ gtIter' = gtIter + 1
    /\ UNCHANGED <<gtConfig, gtResult>>

\* the loop condition iter < iterations fails
GameLoopExit ==
    /\ UNCHANGED gtOthers
    /\ gtPc = "loop"
    /\ ~LoopCondition
    /\ gtPc' = "return"
    /\ UNCHANGED <<gtConfig, playerStrategies, strategyHistory, convergence,
                   gtIter, gtResult>>

\* lines 47-55
GameReturn ==
    /\ UNCHANGED gtOthers
    /\ gtPc = "return"
    /\ IF calculatePayoffsThrows(playerStrategies)
       THEN gtPc' = "error" /\ gtResult' = gtResult
       ELSE /\ gtResult' =
                  [equilibrium |-> [p \in Players |->
                                       StrategyLabel(playerStrategies[p])],
                   payoffs     |-> calculatePayoffs(playerStrategies),
                   convergence |-> convergence,
                   iterations  |-> Len(convergence)]
            /\ gtPc' = "done"
    /\ UNCHANGED <<gtConfig, playerStrategies, strategyHistory, convergence, gtIter>>

GameNext == GameRound \/ GameLoopExit \/ GameReturn

(***************************************************************************)
(* EPRSimulator                                                            *)
(*                                                                         *)
(* Numbers are kept exactly as integers in fixed units:                    *)
(*   value       in units of 0.05     (Val(80)   is 80)                    *)
(*   stability   in units of 0.0005   (Stab(120) is 1.20)                  *)
(*   equity      in units of 0.0002   (Equ(8)    is 0.08)                  *)
(*   reputation  in units of 0.0001   (Rep(5)    is 0.05)                  *)
(*   resources   in units of 1                                             *)
(*   reward      in units of 0.01                                          *)
(* A draw of Math.random() is given in hundredths (0 .. 99). With these    *)
(* units every drift term of applySystemDynamics is an integer.            *)
(***************************************************************************)
Val(x) == x * 20

Stab(hundredths) == hundredths * 20

Equ(hundredths) == hundredths * 50

Rep(hundredths) == hundredths * 100

\* draws of Math.random() used to select actions
ActionDraws == {0, 65, 75, 99}

\* the four draws of one applySystemDynamics call (value, stability, equity,
\* reputation): all lowest, all highest, mixed
DriftDraws == { <<0, 0, 0, 0>>, <<99, 99, 99, 99>>, <<0, 99, 0, 99>> }

Max(a, b) == IF a > b THEN a ELSE b

Min(a, b) == IF a < b THEN a ELSE b

EPRState(value, stability, equity, reputation, resources) ==
    [value |-> value, stability |-> stability, equity |-> equity,
     reputation |-> reputation, resources |-> resources]

Scenario(name, initial, steps, zone) ==
    [name |-> name, initial |-> initial, steps |-> steps, zone |-> zone]

demographicsCollapse ==
    Scenario("Demographics Collapse 2026",
             EPRState(Val(40), Stab(85), Equ(35), Rep(60), 40), 20, "red")

militaryDefence ==
    Scenario("Military Defence-Pushed Growth",
             EPRState(Val(120), Stab(75), Equ(55), Rep(70), 150), 20, "red")

corporateSustainability ==
    Scenario("Corporate Sustainability Crisis",
             EPRState(Val(65), Stab(90), Equ(60), Rep(75), 90), 15, "blue")

customScenario(name, value, stability, equity, resources, steps) ==
    Scenario(name, EPRState(value, stability, equity, Rep(70), resources), steps,
             IF stability < Stab(120) THEN "red" ELSE "blue")

\* a scenario object with another step count
WithSteps(scenario, steps) == [scenario EXCEPT !.steps = steps]

\* Scenarios given to the constructor: the presets' initial values, custom
\* scenarios at and near the declared bounds and the 1.2 stability threshold,
\* scenarios whose initial values are 0 and one whose initial values lie
\* above the declared bounds; each with 0 .. MaxSteps steps.
EPRScenarios ==
    UNION { { WithSteps(demographicsCollapse, n),
              WithSteps(militaryDefence, n),
              WithSteps(corporateSustainability, n),
              customScenario("upper bounds", Val(100), Stab(200), Equ(100), 300, n),
              customScenario("threshold", Val(10), Stab(115), Equ(99), 15, n),
              Scenario("lower bounds", EPRState(1, 1, 1, 1, 1), n, "red"),
              Scenario("zeros", EPRState(0, 0, 0, 0, 0), n, "red"),
              Scenario("zero stability", EPRState(Val(40), 0, Equ(35), Rep(60), 40),
                       n, "red"),
              Scenario("above bounds",
                       EPRState(Val(40), Stab(250), Equ(120), Rep(130), 400),
                       n, "blue") }
          : n \in 0..MaxSteps }

\* x || fallback on numbers: 0 is falsy
OrDefault(x, fallback) == IF x = 0 THEN fallback ELSE x

\* lines 22-28
ConstructState(scenario) ==
    EPRState(OrDefault(scenario.initial.value, Val(80)),
             OrDefault(scenario.initial.stability, Stab(100)),
             OrDefault(scenario.initial.equity, Equ(50)),
             OrDefault(scenario.initial.reputation, Rep(70)),
             OrDefault(scenario.initial.resources, 100))

Agent(name, role, state, principles) ==
    [name |-> name, role |-> role, state |-> state, principles |-> principles]

\* lines 30-55
ConstructAgents(state) ==
    << Agent("EcoAgent", "economic", state, {"prudence", "growth"}),
       Agent("PolAgent", "political", state, {"stability", "negotiation"}),
       Agent("SocAgent", "social", state, {"equity", "redistribution"}),
       Agent("GracianMaster", "mastery", state,
             {"gracian_restraint", "reputation", "timing"}) >>

Actions == <<"allocate", "negotiate", "redistribute", "restrain">>

ZoneOf(state) == IF state.stability < Stab(120) THEN "red" ELSE "blue"

\* the restraint test made for every agent, whatever its principles
HoldsRestraint_Always(agent) == TRUE

\* line 140: agent.principles.includes('gracian_restraint')
HoldsRestraint(agent) == "gracian_restraint" \in agent.principles

\* draw1 is the draw of the restraint test (made only when the agent holds the
\* principle), draw2 the draw of the role's switch branch
selectAction(agent, draw1, draw2) ==
    IF HoldsRestraint(agent) /\ draw1 < 25 THEN "restrain"
    ELSE CASE agent.role = "economic"  -> IF draw2 < 60 THEN "allocate" ELSE "negotiate"
           [] agent.role = "political" -> IF draw2 < 70 THEN "negotiate" ELSE "allocate"
           [] agent.role = "social"    -> IF draw2 < 80 THEN "redistribute" ELSE "negotiate"
           [] agent.role = "mastery"   -> "restrain"
           [] OTHER -> Actions[((draw2 * Len(Actions)) \div 100) + 1]

calculateReward(action, zone, state) ==
    LET base == CASE action = "allocate"     -> IF zone = "red" THEN 800 ELSE 500
                  [] action = "negotiate"    -> 1200
                  [] action = "redistribute" -> 1000
                  [] action = "restrain"     -> 600
                  [] OTHER -> 500
        boosted == IF zone = "red" /\ state.stability < Stab(120)
                   THEN (base * 115) \div 100 ELSE base
    IN  IF state.resources < 20 THEN boosted - 500 ELSE boosted

\* an allocation made whatever the resources are
Affordable_Always(state) == TRUE

\* line 107: this.state.resources >= 10
Affordable(state) == state.resources >= 10

\* the switch of executeAgentAction (lines 105-123)
ApplyAction(action, zone, state) ==
    CASE action = "allocate" ->
             IF Affordable(state)
             THEN [state EXCEPT !.resources = @ - 10,
                                !.value = @ + (IF zone = "red" THEN Val(8) ELSE Val(5))]
             ELSE state
      [] action = "negotiate" ->
             [state EXCEPT !.stability = @ + (IF zone = "red" THEN Stab(15) ELSE Stab(8))]
      [] action = "redistribute" ->
             [state EXCEPT !.equity = @ + Equ(8),
                           !.reputation = Min(Rep(100), @ + Rep(5))]
      [] action = "restrain" ->
             [state EXCEPT !.reputation = Min(Rep(100), @ + Rep(8))]
      [] OTHER -> state

\* a reward that is added to the shared value
AfterReward_Credited(state, reward) == [state EXCEPT !.value = @ + reward]

\* line 102: this.state after this.calculateReward(action, zone) returned.
\* calculateReward assigns no field and its return value is discarded.
AfterReward(state, reward) == state

\* lines 100-134: the action chosen, the reward computed and this.state after
\* the call; the two if statements of lines 126-133 have empty bodies
executeAgentAction(agent, zone, state, draw1, draw2) ==
    LET action == selectAction(agent, draw1, draw2)
        reward == calculateReward(action, zone, state)
    IN  [action |-> action,
         reward |-> reward,
         state  |-> ApplyAction(action, zone, AfterReward(state, reward))]

\* applySystemDynamics without the four bounds of lines 193-196
applySystemDynamics_Unclamped(state, draws) ==
    [state EXCEPT !.value = @ + (draws[1] - 30),
                  !.stability = @ + (draws[2] - 50),
                  !.equity = @ + (draws[3] - 50),
                  !.reputation = @ + 3 * (draws[4] - 40),
                  !.resources = @ + 2]

\* lines 182-197; draws are the four Math.random() values in call order:
\* (r - 0.3) * 5, (r - 0.5) * 0.05, (r - 0.5) * 0.02, (r - 0.4) * 0.03
applySystemDynamics(state, draws) ==
    LET value      == state.value + (draws[1] - 30)
        stability  == state.stability + (draws[2] - 50)
        equity     == state.equity + (draws[3] - 50)
        reputation == state.reputation + 3 * (draws[4] - 40)
        resources  == state.resources + 2
    IN  EPRState(value,
                 Max(0, Min(Stab(200), stability)),
                 Max(0, Min(Equ(100), equity)),
                 Max(0, Min(Rep(100), reputation)),
                 Max(0, Min(300, resources)))

\* lines 199-228; on an empty history every trend is NaN and compares false
generateInsights(history, state) ==
    LET n == Len(history.value)
        valueTrend      == history.value[n] - history.value[1]
        stabilityTrend  == history.stability[n] - history.stability[1]
        equityTrend     == history.equity[n] - history.equity[1]
        reputationTrend == history.reputation[n] - history.reputation[1]
    IN  (IF n > 0 /\ reputationTrend > Rep(10) THEN <<"restraint built reputation">> ELSE <<>>)
        \o (IF n > 0 /\ stabilityTrend > 0 /\ state.stability >= Stab(120)
            THEN <<"virtuous motion achieved">> ELSE <<>>)
        \o (IF n > 0 /\ equityTrend > 0 THEN <<"equity safeguards">> ELSE <<>>)
        \o (IF n > 0 /\ valueTrend > Val(50) THEN <<"strong value creation">> ELSE <<>>)
        \o (IF state.stability < Stab(100) THEN <<"political instability">> ELSE <<>>)

EmptyHistory == [value |-> <<>>, stability |-> <<>>, equity |-> <<>>,
                 reputation |-> <<>>]

NoEPRResult == [history |-> EmptyHistory, finalState |-> EPRState(0, 0, 0, 0, 0),
                insights |-> <<>>, zone |-> "none"]

\* new EPRSimulator(scenario) and the start of simulate()
EPRInit ==
    /\ eprScenario \in EPRScenarios
    /\ eprState = ConstructState(eprScenario)
    /\ eprAgents = ConstructAgents(eprState)
    /\ eprHistory = EmptyHistory
    /\ eprStep = 0
    /\ eprZone = "none"
    /\ eprAgentIdx = 0
    /\ eprAction = "none"
    /\ eprReward = 0
    /\ eprPc = "loop"
    /\ eprResult = NoEPRResult

EPRIdle ==
    /\ eprScenario = WithSteps(demographicsCollapse, 0)
    /\ eprState = ConstructState(eprScenario)
    /\ eprAgents = ConstructAgents(eprState)
    /\ eprHistory = EmptyHistory
    /\ eprStep = 0
    /\ eprZone = "none"
    /\ eprAgentIdx = 0
    /\ eprAction = "none"
    /\ eprReward = 0
    /\ eprPc = "idle"
    /\ eprResult = NoEPRResult

\* start of a step (lines 66-74): record the current state, determine the zone
EPRRecord ==
    /\ UNCHANGED eprOthers
    /\ eprPc = "loop"
    /\ eprStep < eprScenario.steps
    /\ eprHistory' = [value      |-> Append(eprHistory.value, eprState.value),
                      stability  |-> Append(eprHistory.stability, eprState.stability),
                      equity     |-> Append(eprHistory.equity, eprState.equity),
                      reputation |-> Append(eprHistory.reputation, eprState.reputation)]
    /\ eprZone' = ZoneOf(eprState)
    /\ eprAgentIdx' = 1
    /\ eprPc' = "agents"
    /\ UNCHANGED <<eprScenario, eprState, eprAgents, eprStep, eprAction, eprReward,
                   eprResult>>

\* the zone recomputed from the state the agent finds
ActingZone_Current == ZoneOf(eprState)

\* the zone argument of executeAgentAction (line 78): the step's const zone
ActingZone == eprZone

\* executeAgentAction for the next agent of the for-of loop (lines 77-79, 100-134)
EPRAgentAct ==
    /\ UNCHANGED eprOthers
    /\ eprPc = "agents"
    /\ \E draw1 \in ActionDraws, draw2 \in ActionDraws :
          LET call == executeAgentAction(eprAgents[eprAgentIdx], ActingZone,
                                         eprState, draw1, draw2)
          IN  /\ eprAction' = call.action
              /\ eprReward' = call.reward
              /\ eprState' = call.state
    /\ IF eprAgentIdx < Len(eprAgents)
       THEN eprAgentIdx' = eprAgentIdx + 1 /\ eprPc' = "agents"
       ELSE eprAgentIdx' = 0 /\ eprPc' = "dynamics"
    /\ UNCHANGED <<eprScenario, eprAgents, eprHistory, eprStep, eprZone, eprResult>>

\* end of a step (lines 81-87): system dynamics, then every agent's snapshot
EPRDynamics ==
    /\ UNCHANGED eprOthers
    /\ eprPc = "dynamics"
    /\ \E draws \in DriftDraws :
          eprState' = applySystemDynamics(eprState, draws)
    /\ eprAgents' = [i \in DOMAIN eprAgents |->
                        [eprAgents[i] EXCEPT !.state = eprState']]
    /\ eprStep' = eprStep + 1
    /\ eprPc' = "loop"
    /\ UNCHANGED <<eprScenario, eprHistory, eprZone, eprAgentIdx, eprAction, eprReward,
                   eprResult>>

\* after the loop (lines 90-97)
EPRReturn ==
    /\ UNCHANGED eprOthers
    /\ eprPc = "loop"
    /\ ~(eprStep < eprScenario.steps)
    /\ eprResult' = [history    |-> eprHistory,
                     finalState |-> eprState,
                     insights   |-> generateInsights(eprHistory, eprState),
                     zone       |-> ZoneOf(eprState)]
    /\ eprPc' = "done"
    /\ UNCHANGED <<eprScenario, eprState, eprAgents, eprHistory, eprStep, eprZone,
                   eprAgentIdx, eprAction, eprReward>>

EPRNext == EPRRecord \/ EPRAgentAct \/ EPRDynamics \/ EPRReturn

(***************************************************************************)
(* EvolutionarySimulator                                                   *)
(*                                                                         *)
(* A gene is kept in units of 0.05 (0 .. 20 is 0.0 .. 1.0), a fitness of   *)
(* the default function in units of 0.0025, mutationRate and               *)
(* selectionPressure in hundredths. A draw of Math.random() is given in    *)
(* hundredths; the draws used keep every gene on the grid.                 *)
(***************************************************************************)
GeneOne == 20

\* draws of Math.random() for the initial genes (0.05 and 0.95)
InitDraws == {5, 95}

\* draws of Math.random() in tournamentSelection, crossover and mutate
EvoDraws == {0, 75}

\* the three draws of one tournamentSelection call
TournamentDraws == { <<0, 0, 0>>, <<75, 75, 75>>, <<0, 75, 0>>, <<75, 0, 75>> }

EvoConfig(size, gens, rate, pressure) ==
    [populationSize |-> size, generations |-> gens, mutationRate |-> rate,
     selectionPressure |-> pressure]

\* populationSize, gene length, selectionPressure and mutationRate of the
\* runs: no elite (floor(N * pressure) = 0), some elite, pressure above 1 and
\* below 0, mutation never, sometimes and always, individuals without genes
EvoShapes ==
    { [size |-> 1, genes |-> 1, pressure |-> 20,  rate |-> 100],
      [size |-> 1, genes |-> 1, pressure |-> 150, rate |-> 100],
      [size |-> 2, genes |-> 1, pressure |-> 20,  rate |-> 100],
      [size |-> 2, genes |-> 1, pressure |-> 0,   rate |-> 0],
      [size |-> 2, genes |-> 1, pressure |-> 50,  rate |-> 10],
      [size |-> 2, genes |-> 2, pressure |-> 50,  rate |-> 100],
      [size |-> 3, genes |-> 1, pressure |-> 50,  rate |-> 100],
      [size |-> 3, genes |-> 1, pressure |-> 150, rate |-> 100],
      [size |-> 3, genes |-> 1, pressure |-> -50, rate |-> 100],
      [size |-> 2, genes |-> 0, pressure |-> 50,  rate |-> 100] }

Individual(genes, fitness) == [genes |-> genes, fitness |-> fitness]

\* lines 332-337: one draw per gene
InitialPopulations(size, geneLength) ==
    [1..size -> { Individual([g \in 1..geneLength |-> draws[g] \div 5], 0)
                  : draws \in [1..geneLength -> InitDraws] }]

RECURSIVE SumSeq(_)
SumSeq(values) ==
    IF values = <<>> THEN 0 ELSE values[1] + SumSeq(Tail(values))

Squares(values) == [i \in DOMAIN values |-> values[i] * values[i]]

defaultFitnessFunction(genes) == SumSeq(Squares(genes))

\* evaluateFitness without a callback
evaluateFitness(pop) ==
    [i \in DOMAIN pop |->
        [pop[i] EXCEPT !.fitness = defaultFitnessFunction(pop[i].genes)]]

\* the fitnessCallback argument of evolve: none, or the callback of
\* evolveBusinessModel over its scenarios list
NoCallback == [given |-> FALSE, scenarios |-> <<>>]

BusinessCallback(scenarios) == [given |-> TRUE, scenarios |-> scenarios]

\* line 524: scenarios[scenarioIndex % scenarios.length]; on an empty list the
\* index is NaN and the element undefined
ScenarioAt(scenarios, index) ==
    IF Len(scenarios) = 0 THEN "undefined"
    ELSE scenarios[(index % Len(scenarios)) + 1]

\* lines 523-534, in units of 0.005: genes are in units of 0.05
businessFitness(genes, scenario) ==
    LET arr   == genes[1]
        usage == genes[2]
        ai    == genes[3]
    IN  CASE scenario = "crisis"          -> 15 * arr + 5 * usage + 3 * ai
          [] scenario = "tech_disruption" -> 6 * arr + 6 * usage + 20 * ai
          [] OTHER                        -> 10 * (arr + usage + ai)

\* lines 378-386 with the callback of evolveBusinessModel: the individuals are
\* evaluated in the order of this.population, each call takes the scenario at
\* the counter and increments it
evaluateFitnessBusiness(pop, scenarios, index) ==
    [i \in DOMAIN pop |->
        [pop[i] EXCEPT !.fitness =
            businessFitness(pop[i].genes, ScenarioAt(scenarios, index + (i - 1)))]]

\* lines 378-386: this.population after evaluateFitness(fitnessCallback)
Evaluated(pop, callback, index) ==
    IF callback.given THEN evaluateFitnessBusiness(pop, callback.scenarios, index)
    ELSE evaluateFitness(pop)

\* the counter of the callback after the evaluation of the population
IndexAfter(pop, callback, index) ==
    IF callback.given THEN index + Len(pop) ELSE index

\* position of x in a sequence sorted by descending fitness: behind every
\* element that does not have a smaller fitness (Array.prototype.sort is stable)
RECURSIVE InsertByFitness(_, _)
InsertByFitness(sorted, x) ==
    IF sorted = <<>> THEN <<x>>
    ELSE IF sorted[1].fitness < x.fitness THEN <<x>> \o sorted
    ELSE <<sorted[1]>> \o InsertByFitness(Tail(sorted), x)

RECURSIVE SortFrom(_, _, _)
SortFrom(pop, i, sorted) ==
    IF i > Len(pop) THEN sorted
    ELSE SortFrom(pop, i + 1, InsertByFitness(sorted, pop[i]))

\* population.sort((a, b) => b.fitness - a.fitness)
SortByFitness(pop) == SortFrom(pop, 1, <<>>)

\* array.slice(0, end): a negative end counts from the end of the array
SliceTo(array, end) ==
    LET stop == IF end < 0 THEN Max(Len(array) + end, 0) ELSE Min(end, Len(array))
    IN  SubSeq(array, 1, stop)

\* array.slice(-count)
SliceLast(array, count) ==
    SubSeq(array, Max(1, Len(array) - count + 1), Len(array))

\* array[Math.floor(draw * array.length)]
PickAt(array, draw) == array[((draw * Len(array)) \div 100) + 1]

\* Math.floor(draw * array.length), as a position of the sequence
PickPosition(array, draw) == ((draw * Len(array)) \div 100) + 1

\* the position in this.population of the individual tournamentSelection(3)
\* returns; draws[1] picks the first candidate
tournamentPosition(pop, draws) ==
    LET first  == PickPosition(pop, draws[1])
        second == PickPosition(pop, draws[2])
        third  == PickPosition(pop, draws[3])
        best2  == IF pop[second].fitness > pop[first].fitness THEN second ELSE first
    IN  IF pop[third].fitness > pop[best2].fitness THEN third ELSE best2

\* lines 420-431: the individual returned is an element of this.population
tournamentSelection(pop, draws) == pop[tournamentPosition(pop, draws)]

\* a child that is given the genes array of its first parent
ChildGenesOwner_Parent1(position1, position2) == position1

\* line 434: const genes = [], a new array. The position in this.population
\* of the individual whose genes array the child holds: 0, none.
ChildGenesOwner(position1, position2) == 0

crossover(parent1, parent2, draw) ==
    LET crossoverPoint == (draw * Len(parent1.genes)) \div 100
    IN  Individual([i \in 1..Len(parent1.genes) |->
                       IF (i - 1) < crossoverPoint
                       THEN parent1.genes[i] ELSE parent2.genes[i]], 0)

\* a mutated gene stored as computed
ClampGene_None(gene) == gene

\* line 451: Math.max(0, Math.min(1, gene))
ClampGene(gene) == Max(0, Min(GeneOne, gene))

\* mutate; draws[i] = <<draw of the rate test, draw of the perturbation>> of
\* gene i; (Math.random() - 0.5) * 0.2 is (draw - 50) / 25 gene units
mutate(individual, mutationRate, draws) ==
    [individual EXCEPT !.genes =
        [i \in DOMAIN individual.genes |->
            IF draws[i][1] < mutationRate
            THEN ClampGene(individual.genes[i] + ((draws[i][2] - 50) \div 25))
            ELSE individual.genes[i]]]

\* evolveGeneration that carries no individual over
Elite_Empty(pop, config) == <<>>

\* lines 397-398: eliteCount = Math.floor(populationSize * selectionPressure)
Elite(pop, config) ==
    SliceTo(pop, (config.populationSize * config.selectionPressure) \div 100)

getAverageFitness(pop) ==
    Fraction(SumSeq([i \in DOMAIN pop |-> pop[i].fitness]), Len(pop))

\* variance of integer values as a fraction: (k * sum(v^2) - sum(v)^2) / k^2
VarianceNum(values) ==
    Len(values) * SumSeq(Squares(values)) - SumSeq(values) * SumSeq(values)

\* lines 463-477: mean over the gene positions of the population variance
calculateDiversity(pop) ==
    IF Len(pop) = 0 THEN Fraction(0, 1)
    ELSE LET geneLength == Len(pop[1].genes)
         IN  Fraction(SumSeq([g \in 1..geneLength |->
                                 VarianceNum([i \in DOMAIN pop |-> pop[i].genes[g]])]),
                      Len(pop) * Len(pop) * geneLength)

GenerationData(gen, pop) ==
    [generation |-> gen,
     avgFitness |-> getAverageFitness(pop),
     bestFitness |-> pop[1].fitness,
     diversity |-> calculateDiversity(pop)]

\* A convergence value c is kept as its shortfall (1 - c) * 16000000, a
\* fraction between 0 (c = 1) and 16000000 (c = 0).
Shortfall(f) == [shortfall |-> f]

\* lines 479-491: max(0, 1 - (bestVariance + avgVariance) / 100). With k recent
\* entries, avgFitness = s / n and fitness units of 0.0025 (variance units of
\* 1 / 160000) the sum of the two variances is
\*   (n^2 * VarianceNum(best) + VarianceNum(s)) / (k^2 * n^2)   units,
\* and dividing by 100 makes 16000000 units the whole.
evoConvergence(history) ==
    IF Len(history) < 2 THEN Shortfall(Fraction(16000000, 1))
    ELSE LET recent == SliceLast(history, 10)
             k      == Len(recent)
             n      == recent[1].avgFitness.den
             best   == [i \in DOMAIN recent |-> recent[i].bestFitness]
             sums   == [i \in DOMAIN recent |-> recent[i].avgFitness.num]
             den    == k * k * n * n
             num    == n * n * VarianceNum(best) + VarianceNum(sums)
         IN  IF num \div den >= 16000000
             THEN Shortfall(Fraction(16000000, 1))
             ELSE Shortfall(Fraction(num, den))

NoEvoResult == [generations |-> <<>>, finalFitness |-> -1, bestSolution |-> <<>>,
                convergence |-> Shortfall(Fraction(16000000, 1))]

\* new EvolutionarySimulator(config), initialize(geneLength) and the start of
\* evolve()
EvoInit ==
    /\ \E shape \in EvoShapes, gens \in 0..MaxGenerations :
          /\ evoConfig = EvoConfig(shape.size, gens, shape.rate, shape.pressure)
          /\ population \in InitialPopulations(shape.size, shape.genes)
    /\ generationHistory = <<>>
    /\ newPopulation = <<>>
    /\ evoGen = 0
    /\ evoPc = "loop"
    /\ evoResult = NoEvoResult
    /\ fitnessCallback = NoCallback
    /\ scenarioIndex = 0

EvoIdle ==
    /\ evoConfig = EvoConfig(1, 0, 0, 0)
    /\ population = <<Individual(<<0>>, 0)>>
    /\ generationHistory = <<>>
    /\ newPopulation = <<>>
    /\ evoGen = 0
    /\ evoPc = "idle"
    /\ evoResult = NoEvoResult
    /\ fitnessCallback = NoCallback
    /\ scenarioIndex = 0

\* gen < this.config.generations with <= in place of <
EvoLoopCondition_Inclusive == evoGen <= evoConfig.generations

\* gen < this.config.generations (line 346)
EvoLoopCondition == evoGen < evoConfig.generations

\* lines 346-360 and the start of evolveGeneration (lines 394-401): evaluate,
\* sort, record the generation, start the new population with the elite
EvoEvaluate ==
    /\ UNCHANGED evoOthers
    /\ evoPc = "loop"
    /\ EvoLoopCondition
    /\ LET sorted == SortByFitness(Evaluated(population, fitnessCallback,
                                              scenarioIndex))
       IN  /\ population' = sorted
           /\ generationHistory' =
                 Append(generationHistory, GenerationData(evoGen, sorted))
           /\ newPopulation' = Elite(sorted, evoConfig)
    /\ scenarioIndex' = IndexAfter(population, fitnessCallback, scenarioIndex)
    /\ evoPc' = "breed"
    /\ UNCHANGED <<evoConfig, evoGen, evoResult, fitnessCallback>>

\* newPopulation.length < populationSize with <= in place of <
BreedCondition_Inclusive == Len(newPopulation) <= evoConfig.populationSize

\* newPopulation.length < populationSize (line 403)
BreedCondition == Len(newPopulation) < evoConfig.populationSize

\* one pass of the while loop of evolveGeneration (lines 403-415). mutate
\* writes into the genes array of the child: an individual of this.population
\* that held the same array would change with it.
EvoBreed ==
    /\ UNCHANGED evoOthers
    /\ evoPc = "breed"
    /\ BreedCondition
    /\ \E draws1 \in TournamentDraws, draws2 \in TournamentDraws,
          cut \in EvoDraws,
          mutations \in [1..Len(population[1].genes) -> EvoDraws \X EvoDraws] :
          LET parent1 == tournamentSelection(population, draws1)
              parent2 == tournamentSelection(population, draws2)
              child   == crossover(parent1, parent2, cut)
              mutated == mutate(child, evoConfig.mutationRate, mutations)
              owner   == ChildGenesOwner(tournamentPosition(population, draws1),
                                         tournamentPosition(population, draws2))
          IN  /\ newPopulation' = Append(newPopulation, mutated)
              /\ population' = IF owner = 0 THEN population
                               ELSE [population EXCEPT ![owner].genes = mutated.genes]
    /\ UNCHANGED <<evoConfig, generationHistory, evoGen, evoPc, evoResult,
                   fitnessCallback, scenarioIndex>>

\* the while loop ends: this.population = newPopulation (line 417), gen++
EvoReplace ==
    /\ UNCHANGED evoOthers
    /\ evoPc = "breed"
    /\ ~BreedCondition
    /\ population' = newPopulation
    /\ newPopulation' = <<>>
    /\ evoGen' = evoGen + 1
    /\ evoPc' = "loop"
    /\ UNCHANGED <<evoConfig, generationHistory, evoResult, fitnessCallback,
                   scenarioIndex>>

\* after the loop (lines 366-375)
EvoReturn ==
    /\ UNCHANGED evoOthers
    /\ evoPc = "loop"
    /\ ~EvoLoopCondition
    /\ LET sorted == SortByFitness(Evaluated(population, fitnessCallback,
                                              scenarioIndex))
       IN  /\ population' = sorted
           /\ evoResult' = [generations  |-> generationHistory,
                            finalFitness |-> sorted[1].fitness,
                            bestSolution |-> sorted[1].genes,
                            convergence  |-> evoConvergence(generationHistory)]
    /\ scenarioIndex' = IndexAfter(population, fitnessCallback, scenarioIndex)
    /\ evoPc' = "done"
    /\ UNCHANGED <<evoConfig, generationHistory, newPopulation, evoGen,
                   fitnessCallback>>

EvoNext == EvoEvaluate \/ EvoBreed \/ EvoReplace \/ EvoReturn

\* scenarios lists given to evolveBusinessModel: the default, a list of two
\* scenarios and the empty list
ScenarioLists == { <<"normal">>, <<"crisis", "tech_disruption">>, <<>> }

\* gene vectors (ARR, usage, AI investment) of the initial individuals
BusinessGenes == { <<19, 1, 1>>, <<1, 19, 19>> }

\* evolveBusinessModel(generations, scenarios) up to the loop of evolve (lines
\* 507-522, 339-346): mutationRate 0.1, selectionPressure 0.2, three genes,
\* and a population of 2 in place of 50. With at most one generation
\* recorded calculateConvergence returns 0 (line 480).
BusinessInit ==
    /\ \E gens \in 0..1 : evoConfig = EvoConfig(2, gens, 10, 20)
    /\ population \in { pop \in InitialPopulations(2, 3) :
                            /\ pop[1].genes = <<19, 1, 1>>
                            /\ pop[2].genes \in BusinessGenes }
    /\ generationHistory = <<>>
    /\ newPopulation = <<>>
    /\ evoGen = 0
    /\ evoPc = "loop"
    /\ evoResult = NoEvoResult
    /\ fitnessCallback \in { BusinessCallback(scenarios) : scenarios \in ScenarioLists }
    /\ scenarioIndex = 0

(***************************************************************************)
(* ProspectTheorySimulator                                                 *)
(*                                                                         *)
(* alpha, beta, lambda, gamma, delta and lokLevel are kept in hundredths,  *)
(* wealth in units of 1, a reference point in units of 0.01 and a          *)
(* probability in units of 0.00001 (POne is 1.0). A draw of Math.random()  *)
(* is given in hundredths. Math.pow with a fractional exponent has no      *)
(* exact value here: such a result is kept as the term that names it.      *)
(***************************************************************************)
POne == 100000

\* number of agents and initial wealth of initialize() without arguments
DefaultAgents == 500

DefaultWealth == 1000

\* the exact number n / d
Ratio(n, d) == [tag |-> "ratio", a |-> n, b |-> d]

\* Infinity of JavaScript
PosInfinity == [tag |-> "infinity", a |-> 0, b |-> 0]

\* the double computed by lines 143-145 for 0 < p < 1
Prelec(p, gamma) == [tag |-> "prelec", a |-> p, b |-> gamma]

\* Math.pow(x, alpha) for x >= 0, -lambda * Math.pow(-x, beta) for x < 0
PowerValue(x, exponent) == [tag |-> "power", a |-> x, b |-> exponent]

PTConfig(gamma, lokLevel) ==
    [alpha |-> 88, beta |-> 88, lambda |-> 225, gamma |-> gamma, delta |-> 69,
     lokLevel |-> lokLevel]

\* the default configuration, the dashboard's { lokLevel: 0.5 }, and
\* configurations with gamma of 1, 0 and below 0, lokLevel above 1 and below 0
PTConfigs ==
    { PTConfig(61, 0), PTConfig(61, 50), PTConfig(100, 200), PTConfig(0, 0),
      PTConfig(-50, -50) }

InitialWealths == {DefaultWealth, 0}

PTAgent(wealth, gamma, lokLevel) ==
    [wealth |-> wealth, gamma |-> gamma, lokLevel |-> lokLevel,
     referencePoint |-> 0]

\* Math.floor(nAgents / 2) rounded up instead
Half_RoundedUp(nAgents) == (nAgents + 1) \div 2

\* line 27
Half(nAgents) == nAgents \div 2

\* lines 26-46 for nAgents >= 0: the knowledgeable agents, then the LOK agents
initialize(config, nAgents, initialWealth) ==
    LET half == Half(nAgents)
    IN  [i \in 1..nAgents |->
            IF i <= half
            THEN PTAgent(initialWealth, config.gamma, 0)
            ELSE PTAgent(initialWealth, 30, OrDefault(config.lokLevel, 100))]

\* Array(half) and Array(nAgents - half) raise a RangeError for a negative length
initializeThrows(nAgents) == Half(nAgents) < 0 \/ nAgents - Half(nAgents) < 0

\* lines 143-145 in IEEE arithmetic: for gamma > 0 the powers of 0 and 1 are
\* 0 and 1; for gamma = 0 both powers are 1 and 2^(1/0) is Infinity, so the
\* quotient is 0; for gamma < 0 the power of 0 is Infinity and the
\* denominator Infinity^(1/gamma) is 0, so the quotient is Infinity
PrelecFormula(p, gamma) ==
    IF gamma > 0
    THEN IF p = 0 THEN Ratio(0, 1)
         ELSE IF p = POne THEN Ratio(1, 1)
         ELSE Prelec(p, gamma)
    ELSE IF gamma = 0 THEN Ratio(0, 1)
    ELSE IF p = 0 \/ p = POne THEN PosInfinity
    ELSE Prelec(p, gamma)

\* weightingFunction without the two early returns of lines 140-141
weightingFunction_Unguarded(p, gamma) == PrelecFormula(p, gamma)

\* lines 139-146
weightingFunction(p, gamma) ==
    IF p <= 0 THEN Ratio(0, 1)
    ELSE IF p >= POne THEN Ratio(1, 1)
    ELSE PrelecFormula(p, gamma)

\* lines 129-137, x in units of 0.01
valueFunction(config, x) ==
    IF x = 0 THEN Ratio(0, 1)
    ELSE IF x > 0 THEN PowerValue(x, config.alpha)
    ELSE PowerValue(x, config.beta)

\* lines 148-158: x = -50 .. 50
calculateValueFunction(config) ==
    [i \in 1..101 |-> valueFunction(config, (i - 51) * 100)]

\* lines 160-170: p = i / 100 for i = 0 .. 100, gamma = this.config.gamma
calculateWeightingFunction(config) ==
    [i \in 1..101 |-> weightingFunction((i - 1) * (POne \div 100), config.gamma)]

\* The draws of one simulateAgentDecision call: r1 for the perceived
\* probability (drawn only when this.config.lokLevel > 0), r2 for the
\* reference point (drawn only when agent.lokLevel > 0), gamble for the outcome
\* of Math.random() < probChooseGamble, r4 for the outcome of the gamble
\* (drawn only when the gamble is chosen). probChooseGamble lies strictly
\* between 0 and 1 (the logit is clamped to [-20, 20]), so both outcomes of
\* the test are possible.
Decision(r1, r2, gamble, r4) == [r1 |-> r1, r2 |-> r2, gamble |-> gamble, r4 |-> r4]

DecisionDraws ==
    { Decision(50, 50, FALSE, 50), Decision(0, 99, TRUE, 0),
      Decision(99, 0, TRUE, 50) }

\* the draws of one step: consecutive agents of this.agents alternate between
\* the two decisions
StepDraws ==
    { <<d, d>> : d \in DecisionDraws }
        \cup { << Decision(50, 50, FALSE, 50), Decision(0, 99, TRUE, 0) >>,
               << Decision(0, 99, TRUE, 0), Decision(99, 0, TRUE, 50) >> }

\* lines 90-92, in units of 0.00001
pPerceived(config, agent, draw) ==
    IF config.lokLevel > 0
    THEN Max(POne \div 100,
             Min(99 * (POne \div 100),
                 (POne \div 5) + (draw.r1 - 50) * 3 * agent.lokLevel))
    ELSE POne \div 5

\* lines 95-99, in units of 0.01
refPoint(agent, draw) ==
    agent.referencePoint
        + (IF agent.lokLevel > 0 THEN (draw.r2 - 50) * 2 * agent.lokLevel ELSE 0)

\* lines 102-109: the double 1 / (1 + exp(-clamp(logit))) of the weighted
\* gamble value wP * v(300 - ref), the sure value v(50 - ref) and the
\* temperature 1 + 10 * lokLevel
probChooseGamble(config, agent, draw) ==
    [tag |-> "logistic",
     wP |-> weightingFunction(pPerceived(config, agent, draw), agent.gamma),
     gambleValue |-> valueFunction(config, 30000 - refPoint(agent, draw)),
     sureValue |-> valueFunction(config, 5000 - refPoint(agent, draw)),
     temperature |-> 100 + 10 * agent.lokLevel]

\* the gamble credited with its expected value 0.20 * 300
Gain_Expected(choice, won) == IF choice = 1 THEN 60 ELSE 50

\* lines 114-121: the amount added to agent.wealth
Gain(choice, won) == IF choice = 1 THEN (IF won THEN 300 ELSE 0) ELSE 50

\* lines 83-127: the agent after the decision and the record returned
simulateAgentDecision(config, agent, draw) ==
    LET choice == IF draw.gamble THEN 1 ELSE 0
        won    == draw.r4 < 20
        gain   == Gain(choice, won)
    IN  [agent |-> [agent EXCEPT !.wealth = @ + gain],
         choice |-> choice,
         riskTaken |-> IF choice = 1 THEN probChooseGamble(config, agent, draw)
                       ELSE Ratio(0, 1)]

\* values.reduce((a, b) => a + b, 0) on integers, summed by halves
RECURSIVE SumRange(_, _, _)
SumRange(values, first, last) ==
    IF first > last THEN 0
    ELSE IF first = last THEN values[first]
    ELSE LET middle == (first + last) \div 2
         IN  SumRange(values, first, middle) + SumRange(values, middle + 1, last)

\* lines 172-174 on numbers: sum / length
average(values) == Fraction(SumRange(values, 1, Len(values)), Len(values))

\* lines 172-174 on the doubles of riskTaken: the mean of the listed terms
averageOf(terms) == [tag |-> "mean", of |-> terms]

EmptySeries == [wealth |-> <<>>, riskPropensity |-> <<>>, decisions |-> <<>>]

NoPTResult == [valueFunction |-> <<>>, weightingFunction |-> <<>>,
               decisions |-> <<>>, wealth |-> <<>>, riskPropensity |-> <<>>]

\* what the caller does with the simulator: initialize(nAgents,
\* initialWealth) and then simulate(steps), or simulate(steps) alone
PTArgs(callsInitialize, nAgents, initialWealth, steps) ==
    [initialize |-> callsInitialize, nAgents |-> nAgents,
     initialWealth |-> initialWealth, steps |-> steps]

\* new ProspectTheorySimulator(config)
PTInit ==
    /\ ptConfig \in PTConfigs
    /\ ptAgents = <<>>
    /\ ptArgs \in { PTArgs(TRUE, n, w, steps) : n \in (-1)..MaxAgents,
                                                w \in InitialWealths,
                                                steps \in 0..MaxSteps }
                   \cup { PTArgs(FALSE, 0, 0, steps) : steps \in 0..MaxSteps }
    /\ ptSeries = EmptySeries
    /\ ptStep = 0
    /\ ptPc = "new"
    /\ ptResult = NoPTResult

PTIdle ==
    /\ ptConfig = PTConfig(61, 0)
    /\ ptAgents = <<>>
    /\ ptArgs = PTArgs(FALSE, 0, 0, 0)
    /\ ptSeries = EmptySeries
    /\ ptStep = 0
    /\ ptPc = "idle"
    /\ ptResult = NoPTResult

\* initialize(nAgents, initialWealth) on the new simulator
PTInitialize ==
    /\ UNCHANGED ptOthers
    /\ ptPc = "new"
    /\ ptArgs.initialize
    /\ IF initializeThrows(ptArgs.nAgents)
       THEN ptPc' = "error" /\ ptAgents' = ptAgents
       ELSE /\ ptPc' = "ready"
            /\ ptAgents' = initialize(ptConfig, ptArgs.nAgents, ptArgs.initialWealth)
    /\ UNCHANGED <<ptConfig, ptArgs, ptSeries, ptStep, ptResult>>

\* lines 49-51: the agents simulate() runs, this.initialize() when there
\* are none
AgentsToRun(agents, config) ==
    IF Len(agents) = 0
    THEN initialize(config, DefaultAgents, DefaultWealth)
    ELSE agents

\* simulate(steps) up to the loop (lines 48-55), after initialize or on the
\* new simulator
PTSimulate ==
    /\ UNCHANGED ptOthers
    /\ \/ ptPc = "new" /\ ~ptArgs.initialize
       \/ ptPc = "ready"
    /\ ptAgents' = AgentsToRun(ptAgents, ptConfig)
    /\ ptSeries' = EmptySeries
    /\ ptStep' = 0
    /\ ptPc' = "loop"
    /\ UNCHANGED <<ptConfig, ptArgs, ptResult>>

\* one pass of the loop over the steps (lines 57-72): every agent decides
PTStep ==
    /\ UNCHANGED ptOthers
    /\ ptPc = "loop"
    /\ ptStep < ptArgs.steps
    /\ \E draws \in StepDraws :
          LET results == [i \in DOMAIN ptAgents |->
                             simulateAgentDecision(ptConfig, ptAgents[i],
                                                   draws[(i % 2) + 1])]
              stepWealth    == [i \in DOMAIN ptAgents |-> results[i].agent.wealth]
              stepRisk      == [i \in DOMAIN ptAgents |-> results[i].riskTaken]
              stepDecisions == [i \in DOMAIN ptAgents |-> results[i].choice]
          IN  /\ ptAgents' = [i \in DOMAIN ptAgents |-> results[i].agent]
              /\ ptSeries' =
                    [wealth |-> Append(ptSeries.wealth, average(stepWealth)),
                     riskPropensity |->
                        Append(ptSeries.riskPropensity, averageOf(stepRisk)),
                     decisions |->
                        Append(ptSeries.decisions, average(stepDecisions))]
    /\ ptStep' = ptStep + 1
    /\ UNCHANGED <<ptConfig, ptArgs, ptPc, ptResult>>

\* after the loop (lines 74-80)
PTReturn ==
    /\ UNCHANGED ptOthers
    /\ ptPc = "loop"
    /\ ~(ptStep < ptArgs.steps)
    /\ ptResult' = [valueFunction |-> calculateValueFunction(ptConfig),
                    weightingFunction |-> calculateWeightingFunction(ptConfig),
                    decisions |-> ptSeries.decisions,
                    wealth |-> ptSeries.wealth,
                    riskPropensity |-> ptSeries.riskPropensity]
    /\ ptPc' = "done"
    /\ UNCHANGED <<ptConfig, ptAgents, ptArgs, ptSeries, ptStep>>

PTNext == PTInitialize \/ PTSimulate \/ PTStep \/ PTReturn

\* line 187: a.lokLevel > 0
IsLok(agent) == agent.lokLevel > 0

\* line 183: a.lokLevel === 0
IsKnowledgeable(agent) == agent.lokLevel = 0

\* savedAgents.filter(...): the positions of savedAgents that pass the test,
\* in order; the filtered array holds the same agent objects
FilterPositions(agents, cohort) ==
    LET passing == {k \in DOMAIN agents :
                       IF cohort = "lok" THEN IsLok(agents[k])
                       ELSE IsKnowledgeable(agents[k])}
    IN  [n \in 1..Cardinality(passing) |->
            CHOOSE k \in passing : Cardinality({j \in passing : j < k}) = n - 1]

\* the objects of savedAgents as they read now: those that are also elements
\* of this.agents carry the wealth the running simulate() has given them
SavedAgentsNow ==
    [k \in DOMAIN cmpSaved |->
        IF \E i \in DOMAIN cmpAlias : cmpAlias[i] = k
        THEN ptAgents[CHOOSE i \in DOMAIN cmpAlias : cmpAlias[i] = k]
        ELSE cmpSaved[k]]

\* this.agents = savedAgents.filter(...); this.simulate(steps) up to its loop
\* (lines 183-184 or 187-188 with lines 48-55): an empty filtered array is
\* replaced by the new agents of this.initialize()
RunCohort(saved, cohort) ==
    LET positions == FilterPositions(saved, cohort)
        filtered  == [n \in DOMAIN positions |-> saved[positions[n]]]
        agents    == AgentsToRun(filtered, ptConfig)
    IN  /\ ptAgents' = agents
        /\ cmpAlias' = IF Len(filtered) = 0 THEN [i \in DOMAIN agents |-> 0]
                       ELSE positions
        /\ ptSeries' = EmptySeries
        /\ ptStep' = 0
        /\ ptPc' = "loop"

\* compareAgents(steps) up to the loop of the first simulate (lines 177-184)
CompareKnowledgeable ==
    /\ UNCHANGED <<gtVars, eprVars, evoVars, callVars, wfVars>>
    /\ \/ ptPc = "new" /\ ~ptArgs.initialize
       \/ ptPc = "ready"
    /\ cmpPhase = "none"
    /\ cmpSaved' = ptAgents
    /\ RunCohort(ptAgents, "knowledgeable")
    /\ cmpPhase' = "knowledgeable"
    /\ UNCHANGED <<ptConfig, ptArgs, ptResult, cmpResult>>

\* the first simulate returned: lines 184-188 up to the loop of the second
CompareLok ==
    /\ UNCHANGED <<gtVars, eprVars, evoVars, callVars, wfVars>>
    /\ ptPc = "done"
    /\ cmpPhase = "knowledgeable"
    /\ cmpSaved' = SavedAgentsNow
    /\ RunCohort(SavedAgentsNow, "lok")
    /\ cmpResult' = [cmpResult EXCEPT
                        !.knowledgeable = [wealth |-> ptResult.wealth,
                                           risk |-> ptResult.riskPropensity]]
    /\ cmpPhase' = "lok"
    /\ UNCHANGED <<ptConfig, ptArgs, ptResult>>

\* the second simulate returned: lines 188-204
CompareReturn ==
    /\ UNCHANGED <<gtVars, eprVars, evoVars, callVars, wfVars>>
    /\ ptPc = "done"
    /\ cmpPhase = "lok"
    /\ cmpSaved' = SavedAgentsNow
    /\ ptAgents' = SavedAgentsNow
    /\ cmpAlias' = [k \in DOMAIN cmpSaved |-> k]
    /\ cmpResult' = [cmpResult EXCEPT
                        !.lok = [wealth |-> ptResult.wealth,
                                 risk |-> ptResult.riskPropensity]]
    /\ cmpPhase' = "returned"
    /\ UNCHANGED <<ptConfig, ptArgs, ptSeries, ptStep, ptPc, ptResult>>

CompareNext ==
    PTInitialize \/ CompareKnowledgeable \/ PTStep \/ PTReturn \/ CompareLok
        \/ CompareReturn

(***************************************************************************)
(* WorkflowEngine (src/src/core/WorkflowEngine.ts)                         *)
(*                                                                         *)
(* executeWorkflow is async: between the start of a step and its end       *)
(* (await this.runStepLogic) other executeWorkflow calls on the same       *)
(* engine run. The value a step computes is not modelled, only whether     *)
(* runStepLogic returns or throws.                                         *)
(***************************************************************************)
\* step ids of the registered workflows; "" is the empty string
StepIds == {"a", "b", ""}

\* 'action' always returns (line 211), 'custom' runs the caller's
\* customLogic, which returns or throws, and a type outside the switch of
\* runStepLogic throws (line 143)
StepTypes == {"action", "custom", "unknown"}

WorkflowStep(id, type) == [id |-> id, type |-> type]

Workflow(id, steps) == [id |-> id, steps |-> steps]

\* the workflows a caller registers under the id "wf"
RegisteredWorkflows ==
    { Workflow("wf", steps) :
        steps \in UNION { [1..n -> { WorkflowStep(id, type) :
                                        id \in StepIds, type \in StepTypes }]
                          : n \in 0..MaxWorkflowSteps } }

\* lines 126-145: how runStepLogic can end for a step
Outcomes(step) ==
    CASE step.type = "action"  -> {"returns"}
      [] step.type = "custom"  -> {"returns", "throws"}
      [] OTHER                 -> {"throws"}

WorkflowLog(stepId, level, message) ==
    [stepId |-> stepId, level |-> level, message |-> message]

\* lines 73-83; results holds the keys that are set
NewExecution(workflowId, inputs) ==
    [workflowId |-> workflowId, status |-> "running", currentStep |-> "null",
     completedSteps |-> <<>>, results |-> inputs, logs |-> <<>>]

NoExecution == [workflowId |-> "", status |-> "none", currentStep |-> "null",
                completedSteps |-> <<>>, results |-> {}, logs |-> <<>>]

\* the function stepId at the end of the file (lines 687-691): an empty
\* currentStep is falsy
stepId(steps, currentStep) ==
    IF currentStep = "null" \/ currentStep = "" THEN "unknown"
    ELSE IF \E i \in DOMAIN steps : steps[i].id = currentStep
         THEN currentStep
         ELSE "unknown"

\* this.workflows.get(workflowId)
Registered(workflowId) == \E w \in workflows : w.id = workflowId

GetWorkflow(workflowId) == CHOOSE w \in workflows : w.id = workflowId

WorkflowCall(workflowId, inputs) ==
    [workflowId |-> workflowId, inputs |-> inputs, pc |-> "called", step |-> 0]

\* new WorkflowEngine(), registerWorkflow(workflow) and MaxExecutions calls of
\* executeWorkflow(workflowId, problemId, inputs) that have not started
WorkflowInit ==
    /\ \E w \in RegisteredWorkflows : workflows = {w}
    /\ executions = [c \in 1..MaxExecutions |-> NoExecution]
    /\ wfCalls \in [1..MaxExecutions ->
                       { WorkflowCall(id, {"problem"}) : id \in {"wf", "missing"} }]

WorkflowIdle ==
    /\ workflows = {}
    /\ executions = [c \in 1..MaxExecutions |-> NoExecution]
    /\ wfCalls = [c \in 1..MaxExecutions |-> WorkflowCall("", {})]

\* line 88: the for-of loop has a step left
LoopContinues(steps, index) == index <= Len(steps)

\* lines 88-90 and 108, up to the await of line 110, or lines 94-95 and 102
\* when the loop is over: what runs without interruption once the step before
\* index is done. The result is the execution and the position of the call.
Proceed(execution, steps, index) ==
    IF LoopContinues(steps, index)
    THEN [execution |->
             [execution EXCEPT
                !.currentStep = steps[index].id,
                !.logs = Append(@, WorkflowLog(steps[index].id, "info",
                                               "Executing step"))],
          pc |-> "await", step |-> index]
    ELSE [execution |-> [execution EXCEPT !.status = "completed"],
          pc |-> "returned", step |-> index]

\* lines 110-123 and 91: runStepLogic returned
StepCompleted(execution, step) ==
    [execution EXCEPT
       !.results = @ \cup {step.id},
       !.logs = Append(@, WorkflowLog(step.id, "info", "Step completed")),
       !.completedSteps = Append(@, step.id)]

\* lines 96-100: runStepLogic threw
StepFailed(execution, steps) ==
    [execution EXCEPT
       !.status = "failed",
       !.logs = Append(@, WorkflowLog(stepId(steps, execution.currentStep),
                                      "error", "error message"))]

\* lines 62-90: look the workflow up, create and store the execution, and run
\* to the first await
ExecuteWorkflow(c) ==
    /\ UNCHANGED <<gtVars, eprVars, evoVars, ptVars, callVars, cmpVars>>
    /\ wfCalls[c].pc = "called"
    /\ IF Registered(wfCalls[c].workflowId)
       THEN LET started ==
                   Proceed(NewExecution(wfCalls[c].workflowId, wfCalls[c].inputs),
                           GetWorkflow(wfCalls[c].workflowId).steps, 1)
            IN /\ executions' = [executions EXCEPT ![c] = started.execution]
               /\ wfCalls' = [wfCalls EXCEPT ![c].pc = started.pc,
                                             ![c].step = started.step]
       ELSE /\ executions' = executions
            /\ wfCalls' = [wfCalls EXCEPT ![c].pc = "thrown"]
    /\ UNCHANGED workflows

\* the awaited runStepLogic of call c ends: the call goes on to its next await
\* or returns
StepEnd(c) ==
    /\ UNCHANGED <<gtVars, eprVars, evoVars, ptVars, callVars, cmpVars>>
    /\ wfCalls[c].pc = "await"
    /\ LET steps == GetWorkflow(executions[c].workflowId).steps
           step == steps[wfCalls[c].step]
       IN \E outcome \in Outcomes(step) :
            IF outcome = "returns"
            THEN LET next == Proceed(StepCompleted(executions[c], step), steps,
                                     wfCalls[c].step + 1)
                 IN /\ executions' = [executions EXCEPT ![c] = next.execution]
                    /\ wfCalls' = [wfCalls EXCEPT ![c].pc = next.pc,
                                                  ![c].step = next.step]
            ELSE /\ executions' =
                       [executions EXCEPT ![c] = StepFailed(executions[c], steps)]
                 /\ wfCalls' = [wfCalls EXCEPT ![c].pc = "returned"]
    /\ UNCHANGED workflows

WorkflowNext ==
    \E c \in 1..MaxExecutions : ExecuteWorkflow(c) \/ StepEnd(c)

(***************************************************************************)
(* Specifications: one engine runs, the others stay idle.                  *)
(***************************************************************************)
\* the caller holds no result of an earlier call
NoEarlier == [engine |-> "none", result |-> <<>>]

NoCompareResult ==
    [knowledgeable |-> [wealth |-> <<>>, risk |-> <<>>],
     lok |-> [wealth |-> <<>>, risk |-> <<>>]]

\* compareAgents has not been called
NoCompare ==
    /\ cmpSaved = <<>>
    /\ cmpAlias = <<>>
    /\ cmpPhase = "none"
    /\ cmpResult = NoCompareResult

FirstCall == callNo = 1 /\ earlier = NoEarlier /\ NoCompare

InitGame ==
    GameInit /\ EPRIdle /\ EvoIdle /\ PTIdle /\ FirstCall /\ WorkflowIdle

InitEPR ==
    EPRInit /\ GameIdle /\ EvoIdle /\ PTIdle /\ FirstCall /\ WorkflowIdle

InitEvo ==
    EvoInit /\ GameIdle /\ EPRIdle /\ PTIdle /\ FirstCall /\ WorkflowIdle

InitPT ==
    PTInit /\ GameIdle /\ EPRIdle /\ EvoIdle /\ FirstCall /\ WorkflowIdle

\* simulate() is called again on the EPRSimulator whose call returned (lines
\* 58-64): a new history object, the loop counter at 0; this.state and
\* this.agents are what the previous call left
EPRSimulateAgain ==
    /\ UNCHANGED <<gtVars, evoVars, ptVars, cmpVars, wfVars>>
    /\ eprPc = "done"
    /\ callNo < MaxCalls
    /\ callNo' = callNo + 1
    /\ earlier' = [engine |-> "epr", result |-> eprResult]
    /\ eprHistory' = EmptyHistory
    /\ eprStep' = 0
    /\ eprZone' = "none"
    /\ eprAgentIdx' = 0
    /\ eprPc' = "loop"
    /\ UNCHANGED <<eprScenario, eprState, eprAgents, eprAction, eprReward, eprResult>>

\* evolve() is called again on the EvolutionarySimulator whose call returned
\* (lines 339-346): the population is not empty, so it is kept;
\* this.generationHistory is what the previous call left, and the result
\* object of that call refers to the same array
EvoEvolveAgain ==
    /\ UNCHANGED <<gtVars, eprVars, ptVars, cmpVars, wfVars>>
    /\ evoPc = "done"
    /\ callNo < MaxCalls
    /\ callNo' = callNo + 1
    /\ earlier' = [engine |-> "evo", result |-> evoResult]
    /\ evoGen' = 0
    /\ newPopulation' = <<>>
    /\ evoPc' = "loop"
    /\ UNCHANGED <<evoConfig, population, generationHistory, evoResult,
                   fitnessCallback, scenarioIndex>>

\* simulate(steps) is called again on the ProspectTheorySimulator whose call
\* returned (lines 48-55): this.agents are what the previous call left
PTSimulateAgain ==
    /\ UNCHANGED <<gtVars, eprVars, evoVars, cmpVars, wfVars>>
    /\ ptPc = "done"
    /\ callNo < MaxCalls
    /\ callNo' = callNo + 1
    /\ earlier' = [engine |-> "pt", result |-> ptResult]
    /\ ptAgents' = AgentsToRun(ptAgents, ptConfig)
    /\ ptSeries' = EmptySeries
    /\ ptStep' = 0
    /\ ptPc' = "loop"
    /\ UNCHANGED <<ptConfig, ptArgs, ptResult>>

\* the result object of the previous call as the caller reads it now: the
\* generations of an EvolutionaryResult are this.generationHistory itself
\* (line 371), every other field is a value or an object of that call
EarlierAsRead ==
    IF earlier.engine = "evo"
    THEN [earlier.result EXCEPT !.generations = generationHistory]
    ELSE earlier.result

\* the instances that are called repeatedly: the EPR scenarios of one step,
\* an optimizer of two individuals with one gene and one generation, Prospect
\* Theory simulators of no or two agents and one step
InitCalls ==
    /\ FirstCall
    /\ WorkflowIdle
    /\ \/ /\ EPRInit /\ GameIdle /\ EvoIdle /\ PTIdle
          /\ eprScenario.steps = 1
       \/ /\ EvoInit /\ GameIdle /\ EPRIdle /\ PTIdle
          /\ evoConfig = EvoConfig(2, 1, 10, 50)
          /\ Len(population[1].genes) = 1
       \/ /\ PTInit /\ GameIdle /\ EPRIdle /\ EvoIdle
          /\ ptConfig = PTConfig(61, 50)
          /\ ptArgs \in { PTArgs(TRUE, 2, DefaultWealth, 1),
                          PTArgs(TRUE, 0, DefaultWealth, 1),
                          PTArgs(FALSE, 0, 0, 1) }

InitBusiness ==
    BusinessInit /\ GameIdle /\ EPRIdle /\ PTIdle /\ FirstCall /\ WorkflowIdle

InitWorkflow ==
    WorkflowInit /\ GameIdle /\ EPRIdle /\ EvoIdle /\ PTIdle /\ FirstCall

\* new ProspectTheorySimulator(config) whose caller calls compareAgents
InitCompare ==
    /\ PTInit /\ GameIdle /\ EPRIdle /\ EvoIdle /\ FirstCall /\ WorkflowIdle
    /\ ptConfig \in {PTConfig(61, 0), PTConfig(61, 50)}
    /\ ptArgs.nAgents >= 0
    /\ ptArgs.initialWealth \in {DefaultWealth, 0}
    /\ ptArgs.steps = 1

CallsNext ==
    \/ EPRNext \/ EPRSimulateAgain
    \/ EvoNext \/ EvoEvolveAgain
    \/ PTNext \/ PTSimulateAgain

SpecGame == InitGame /\ [][GameNext]_vars

SpecEPR == InitEPR /\ [][EPRNext]_vars

SpecEvo == InitEvo /\ [][EvoNext]_vars

SpecPT == InitPT /\ [][PTNext]_vars

SpecCalls == InitCalls /\ [][CallsNext]_vars

SpecCompare == InitCompare /\ [][CompareNext]_vars

SpecBusiness == InitBusiness /\ [][EvoNext]_vars

SpecWorkflow == InitWorkflow /\ [][WorkflowNext]_vars

(***************************************************************************)
(* Properties of GameTheorySimulator (specification SpecGame).               *)
(***************************************************************************)
IsPrisonersDilemma ==
    gtConfig = prisonersDilemma(gtConfig.iterations)

\* C3: In the Prisoner's Dilemma, from each of the four initial profiles and
\* for every iteration cap T >= 1, simulate returns the equilibrium
\* [Defect, Defect] with payoffs [1, 1] and records at most 3 rounds.
C3_PrisonersDilemmaDefects ==
    (IsPrisonersDilemma /\ gtConfig.iterations >= 1) =>
        /\ Len(convergence) <= 3
        /\ gtPc = "done" =>
              /\ gtResult.equilibrium = <<"Defect", "Defect">>
              /\ gtResult.payoffs = <<Num(1), Num(1)>>
              /\ gtResult.iterations <= 3

\* a Prisoner's Dilemma run from Cooperate/Cooperate that returned after the
\* third round
C3_Witness ==
    /\ IsPrisonersDilemma
    /\ gtConfig.iterations >= 3
    /\ gtPc = "done"
    /\ strategyHistory[1] = <<0, 0>>
    /\ gtResult.iterations = 3

\* the profile the last round started from and the profile it produced
RoundPlayed == Len(strategyHistory) >= 1 /\ gtPc # "error"

PreviousRound == strategyHistory[Len(strategyHistory)]

\* C4 as stated: after every round each player's strategy is a best response
\* to the strategies all players had at the end of the previous round.
C4_SimultaneousUpdate ==
    RoundPlayed =>
        \A p \in Players :
            playerStrategies[p] = findBestResponse(p, PreviousRound)

\* C4 as amended: players are updated one after the other in index order.
\* Each player's new strategy is a best response to the profile in which the
\* players of lower index already have their new strategy of this round and
\* the players of higher index still have their previous-round strategy.
C4_SequentialUpdate ==
    RoundPlayed =>
        \A p \in Players :
            playerStrategies[p] =
                findBestResponse(p, [q \in Players |->
                    IF q < p THEN playerStrategies[q] ELSE PreviousRound[q]])

\* a round in which a later player answered a strategy changed in that round
C4_Witness ==
    /\ RoundPlayed
    /\ \E p \in Players :
          playerStrategies[p] # findBestResponse(p, PreviousRound)

\* the profile after the update of round r (rounds numbered from 1)
ProfileAfter(r) ==
    IF r < Len(strategyHistory) THEN strategyHistory[r + 1] ELSE playerStrategies

\* the loop stops at the first round whose value exceeds 0.99 and otherwise
\* runs exactly the configured number of rounds
StopsAtFirstConverged ==
    /\ gtPc # "error" => Len(convergence) = Len(strategyHistory)
    /\ Len(convergence) <= gtConfig.iterations
    /\ \A r \in 1..(Len(convergence) - 1) : ~Converged(convergence[r])
    /\ gtPc = "loop" => /\ gtIter = Len(convergence)
                        /\ \A r \in 1..Len(convergence) : ~Converged(convergence[r])
    /\ gtPc \in {"return", "done"} =>
          \/ Len(convergence) >= 1 /\ Converged(convergence[Len(convergence)])
          \/ Len(convergence) = gtConfig.iterations

\* C5 as stated: for every round r, the first included, convergence[r] is the
\* share of players whose strategy after round r's update equals their
\* strategy before that update; the loop stops at the first value above 0.99
\* and otherwise runs exactly T rounds.
C5_ConvergenceOfSameRound ==
    /\ \A r \in 1..Len(convergence) :
          FractionEq(convergence[r],
                     Fraction(Matches(ProfileAfter(r), strategyHistory[r]),
                              gtConfig.players))
    /\ StopsAtFirstConverged

\* C5 as amended: the value recorded in the first round is 0, and the value
\* recorded in every later round r is the share of players whose strategy at
\* the start of round r equals their strategy at the start of round r-1 (the
\* share the update of round r-1 left unchanged); the loop stops at the first
\* round whose value exceeds 0.99 and otherwise runs exactly T rounds.
C5_ConvergenceOfPreviousRound ==
    /\ \A r \in 1..Len(convergence) :
          IF r = 1
          THEN convergence[r].num = 0
          ELSE FractionEq(convergence[r],
                          Fraction(Matches(strategyHistory[r], strategyHistory[r - 1]),
                                   gtConfig.players))
    /\ StopsAtFirstConverged

\* a run that stopped in its third round, before the cap, on a value of 1
\* that describes the update of the second round
C5_Witness ==
    /\ gtPc = "done"
    /\ Len(convergence) = 3
    /\ gtConfig.iterations > 3
    /\ Converged(convergence[3])
    /\ strategyHistory[1] # strategyHistory[2]

\* C6: in every returned convergence series an entry equal to 1.0 is never
\* followed by an entry below 1.0, and the returned iterations equals the
\* length of the series and is at most the configured iteration cap.
C6_OneIsNeverLeft ==
    gtPc = "done" =>
        /\ \A i \in 1..Len(gtResult.convergence) :
              \A j \in (i + 1)..Len(gtResult.convergence) :
                  IsOne(gtResult.convergence[i]) => IsOne(gtResult.convergence[j])
        /\ gtResult.iterations = Len(gtResult.convergence)
        /\ gtResult.iterations <= gtConfig.iterations

\* a returned series that reached 1.0 after at least one lower entry
C6_Witness ==
    /\ gtPc = "done"
    /\ Len(gtResult.convergence) >= 2
    /\ IsOne(gtResult.convergence[Len(gtResult.convergence)])
    /\ gtResult.iterations = gtConfig.iterations

\* a nested array of `depth` levels of NumStrategies entries each that holds
\* vectors of one payoff per player
RECURSIVE WellShaped(_, _)
WellShaped(tensor, depth) ==
    IF depth = 0 THEN Len(tensor) = gtConfig.players
    ELSE /\ Len(tensor) = NumStrategies
         /\ \A i \in 1..Len(tensor) : WellShaped(tensor[i], depth - 1)

ValidGameConfig ==
    /\ gtConfig.players >= 1
    /\ NumStrategies >= 1
    /\ WellShaped(gtConfig.payoffs, gtConfig.players)

\* the entry of the nested payoff array reached with all indices of a profile
RECURSIVE IndexBy(_, _, _)
IndexBy(array, strategies, i) ==
    IF i > Len(strategies) THEN array
    ELSE IndexBy(array[strategies[i] + 1], strategies, i + 1)

TensorEntry(strategies) == IndexBy(gtConfig.payoffs, strategies, 1)

\* C7: for every player count, n > 2 included, the payoff used for a player
\* in the best-response search and in the final payoffs is the tensor entry
\* indexed by the full n-tuple of all players' strategy indices.
C7_FullTupleLookup ==
    ValidGameConfig =>
    /\ RoundPlayed =>
          \A p \in Players : \A other \in 0..(NumStrategies - 1) :
              LET faced == [q \in Players |->
                              IF q < p THEN playerStrategies[q] ELSE PreviousRound[q]]
              IN  TensorEntry([faced EXCEPT ![p] = playerStrategies[p]])[p]
                     >= TensorEntry([faced EXCEPT ![p] = other])[p]
    /\ gtPc = "done" =>
          \A p \in Players :
              gtResult.payoffs[p] = Num(TensorEntry(playerStrategies)[p])

\* C14: a configuration whose payoff tensor does not hold one payoff per
\* player for every strategy profile, or with fewer than 1 strategy or fewer
\* than 1 player, is rejected before any round is played: no round is
\* started and no result is returned.
C14_RejectsMalformedConfig ==
    ~ValidGameConfig =>
        /\ Len(strategyHistory) = 0
        /\ gtPc # "done"

\* player p gets no strictly higher payoff from any other strategy while the
\* other players keep theirs
NoBetterSwitch(p, profile) ==
    \A strategy \in 0..(NumStrategies - 1) :
        ~JsGreater(getPayoff(p, [profile EXCEPT ![p] = strategy]),
                   getPayoff(p, profile))

\* C18: in a two-player game, whenever the loop ended before the iteration
\* cap, the returned profile is a fixed point of best response: neither
\* player gets a strictly higher payoff by switching alone.
C18_EarlyStopIsFixedPoint ==
    (gtPc = "done" /\ gtConfig.players = 2
        /\ gtResult.iterations < gtConfig.iterations) =>
        /\ \A p \in Players : NoBetterSwitch(p, playerStrategies)
        /\ \A p \in Players :
              gtResult.equilibrium[p] = StrategyLabel(playerStrategies[p])

\* a Hawk-Dove run that started away from its returned profile and ended
\* in its third round, before the cap
C18_Witness ==
    /\ gtPc = "done"
    /\ gtConfig = hawkDove(gtConfig.iterations)
    /\ gtResult.iterations = 3
    /\ gtResult.iterations < gtConfig.iterations
    /\ strategyHistory[1] # playerStrategies

\* the strategies no other strategy beats for player p against the profile
Maximizers(p, profile) ==
    {s \in 0..(NumStrategies - 1) :
        \A t \in 0..(NumStrategies - 1) :
            ~JsGreater(getPayoff(p, [profile EXCEPT ![p] = t]),
                       getPayoff(p, [profile EXCEPT ![p] = s]))}

IsLowestMaximizer(s, p, profile) ==
    /\ s \in Maximizers(p, profile)
    /\ \A t \in Maximizers(p, profile) : s <= t

\* C19: for every player and every profile, findBestResponse is the lowest
\* strategy index among those that maximize the player's payoff, and so is
\* every strategy a played round assigned.
C19_LowestMaximizer ==
    NumStrategies >= 1 =>
        /\ \A profile \in Profiles : \A p \in Players :
              ~findBestResponseThrows(p, profile) =>
                  IsLowestMaximizer(findBestResponse(p, profile), p, profile)
        /\ RoundPlayed =>
              \A p \in Players :
                  IsLowestMaximizer(playerStrategies[p], p,
                      [q \in Players |->
                          IF q < p THEN playerStrategies[q] ELSE PreviousRound[q]])

\* a round of the three-strategy game in which player 0 left strategy 0 for
\* strategy 1, which earns the same as strategy 2
C19_Witness ==
    /\ gtConfig = tiedGame(gtConfig.iterations)
    /\ RoundPlayed
    /\ PreviousRound[1] = 0
    /\ playerStrategies[1] = 1
    /\ Maximizers(1, PreviousRound) = {1, 2}

(***************************************************************************)
(* Properties of EPRSimulator (specification SpecEPR).                     *)
(***************************************************************************)
StabilityInBounds(x) == 0 <= x /\ x <= Stab(200)

EquityInBounds(x) == 0 <= x /\ x <= Equ(100)

ReputationInBounds(x) == 0 <= x /\ x <= Rep(100)

ResourcesInBounds(x) == 0 <= x /\ x <= 300

InitialInBounds ==
    /\ StabilityInBounds(eprScenario.initial.stability)
    /\ EquityInBounds(eprScenario.initial.equity)
    /\ ReputationInBounds(eprScenario.initial.reputation)
    /\ ResourcesInBounds(eprScenario.initial.resources)

HistoryInBounds(history) ==
    /\ \A i \in DOMAIN history.stability : StabilityInBounds(history.stability[i])
    /\ \A i \in DOMAIN history.equity : EquityInBounds(history.equity[i])
    /\ \A i \in DOMAIN history.reputation : ReputationInBounds(history.reputation[i])

\* C1: for every scenario whose initial values are within bounds and every
\* step count, every recorded history entry and the returned finalState have
\* stability in [0,2], equity in [0,1], reputation in [0,1] and resources in
\* [0,300], whatever actions the agents choose and whatever drift is drawn.
C1_RecordedStateInBounds ==
    InitialInBounds =>
        /\ HistoryInBounds(eprHistory)
        /\ eprPc = "done" =>
              /\ HistoryInBounds(eprResult.history)
              /\ StabilityInBounds(eprResult.finalState.stability)
              /\ EquityInBounds(eprResult.finalState.equity)
              /\ ReputationInBounds(eprResult.finalState.reputation)
              /\ ResourcesInBounds(eprResult.finalState.resources)

\* a returned run of two steps whose second recorded stability and equity sit
\* on their upper bounds and whose final resources sit on theirs: the values
\* were pushed beyond the bounds within the step and brought back by the step's
\* dynamics
C1_Witness ==
    /\ eprPc = "done"
    /\ Len(eprResult.history.stability) = 2
    /\ eprResult.history.stability[2] = Stab(200)
    /\ eprResult.history.equity[2] = Equ(100)
    /\ eprResult.finalState.resources = 300

\* C2: for every scenario with in-bounds initial values, values equal to 0
\* included, and steps >= 1, each of the four history series has exactly
\* `steps` entries and its first entry equals the scenario's configured initial
\* value, stability, equity and reputation respectively.
C2_HistoryStartsAtConfigured ==
    (InitialInBounds /\ eprScenario.steps >= 1) =>
        /\ Len(eprHistory.value) >= 1 =>
              /\ eprHistory.value[1] = eprScenario.initial.value
              /\ eprHistory.stability[1] = eprScenario.initial.stability
              /\ eprHistory.equity[1] = eprScenario.initial.equity
              /\ eprHistory.reputation[1] = eprScenario.initial.reputation
        /\ eprPc = "done" =>
              /\ Len(eprResult.history.value) = eprScenario.steps
              /\ Len(eprResult.history.stability) = eprScenario.steps
              /\ Len(eprResult.history.equity) = eprScenario.steps
              /\ Len(eprResult.history.reputation) = eprScenario.steps

\* C15: a scenario with steps < 1 or with an initial stability, equity,
\* reputation or resources value outside its declared bounds is rejected
\* before any step runs: no history entry is recorded and no result is
\* returned.
C15_RejectsInvalidScenario ==
    (eprScenario.steps < 1 \/ ~InitialInBounds) =>
        /\ Len(eprHistory.value) = 0
        /\ eprPc # "done"

\* the zone of the stability recorded at the start of the current step
ZoneAtStepStart ==
    IF eprHistory.stability[Len(eprHistory.stability)] < Stab(120)
    THEN "red" ELSE "blue"

\* C20: the zone of a step is red iff the stability recorded at its start is
\* below 1.2; every agent of the step applies an action with the effect
\* magnitudes of that zone, whatever the stability has become within the
\* step; and the zone of the result is red iff the final stability is below
\* 1.2.
C20_ZoneFixedPerStep ==
    [][ /\ eprPc' = "agents" => eprZone' = ZoneAtStepStart'
        /\ eprPc = "agents" =>
              \E i \in DOMAIN Actions :
                  eprState' = ApplyAction(Actions[i], ZoneAtStepStart, eprState)
        /\ eprPc' = "done" =>
              /\ eprResult'.zone \in {"red", "blue"}
              /\ eprResult'.zone = "red" <=>
                    eprResult'.finalState.stability < Stab(120)
      ]_vars

\* the first step of the "threshold" scenario (stability 1.15) after the
\* economic and the political agent both negotiated: the first negotiation
\* moved stability across 1.2, the second still added the red-zone 0.15
C20_Witness ==
    /\ eprPc = "agents"
    /\ eprStep = 0
    /\ eprAgentIdx = 3
    /\ eprZone = "red"
    /\ ZoneOf(eprState) = "blue"
    /\ eprHistory.stability[1] = Stab(115)
    /\ eprState.stability = Stab(145)

\* the agent whose executeAgentAction call returned last: the one before the
\* next agent of the loop, or the last agent of the completed loop
ActedAgent ==
    eprAgents[IF eprAgentIdx <= 1 THEN Len(eprAgents) ELSE eprAgentIdx - 1]

\* the actions selectAction may return for a role
RoleActions(role) ==
    CASE role = "economic"  -> {"allocate", "negotiate"}
      [] role = "political" -> {"allocate", "negotiate"}
      [] role = "social"    -> {"redistribute", "negotiate"}
      [] role = "mastery"   -> {"restrain"}

\* principle sets of an EPRAgent, with and without the restraint tag
PrincipleSets ==
    { {}, {"prudence", "growth"}, {"gracian_restraint"},
      {"gracian_restraint", "reputation", "timing"} }

\* C21: in every step the mastery agent chooses restrain, the economic and
\* the political agent choose allocate or negotiate, the social agent chooses
\* redistribute or negotiate; and for every role and principle set,
\* selectAction returns restrain for a non-mastery role only if the principle
\* set contains the restraint tag, and otherwise an action of the role.
C21_ActionsByRole ==
    /\ (eprPc \in {"agents", "dynamics"} /\ eprAction # "none") =>
          eprAction \in RoleActions(ActedAgent.role)
    /\ \A role \in {"economic", "political", "social", "mastery"},
          principles \in PrincipleSets, draw1 \in ActionDraws, draw2 \in ActionDraws :
          LET agent  == Agent("agent", role, eprState, principles)
              action == selectAction(agent, draw1, draw2)
          IN  /\ role = "mastery" => action = "restrain"
              /\ (role # "mastery" /\ action = "restrain") =>
                    "gracian_restraint" \in principles
              /\ action # "restrain" => action \in RoleActions(role)

\* a step in which the economic agent negotiated, the political agent
\* allocated, the social agent redistributed and the mastery agent restrained
C21_Witness ==
    /\ eprPc = "dynamics"
    /\ eprAction = "restrain"
    /\ ActedAgent.role = "mastery"
    /\ eprState.stability > eprHistory.stability[Len(eprHistory.stability)]
    /\ eprState.equity > eprHistory.equity[Len(eprHistory.equity)]
    /\ eprState.resources = ConstructState(eprScenario).resources - 10
    /\ eprStep = 0

OtherSnapshots ==
    { EPRState(0, 0, 0, 0, 0),
      EPRState(Val(100), Stab(200), Equ(100), Rep(100), 300) }

\* values a reward could have instead, in units of 0.01
OtherRewards == {0, 100, 1380}

\* C23: the reward and the agents' private snapshots are inert. For the
\* agent about to act and every pair of draws, computing the reward leaves
\* the shared state as it was, whatever the reward is, and the action chosen
\* and the state after the call are the same whatever the agent's snapshot
\* holds: the effect is the one of the chosen action on the shared state.
\* Recording, dynamics and the result read the shared state only, so runs
\* with the same draws have the same actions, history and final state.
C23_RewardAndSnapshotsInert ==
    eprPc = "agents" =>
        \A draw1 \in ActionDraws, draw2 \in ActionDraws :
            LET agent == eprAgents[eprAgentIdx]
                call  == executeAgentAction(agent, eprZone, eprState, draw1, draw2)
            IN  /\ AfterReward(eprState, call.reward) = eprState
                /\ \A reward \in OtherRewards : AfterReward(eprState, reward) = eprState
                /\ call.state = ApplyAction(call.action, eprZone, eprState)
                /\ \A snapshot \in OtherSnapshots :
                      LET other == executeAgentAction([agent EXCEPT !.state = snapshot],
                                                      eprZone, eprState, draw1, draw2)
                      IN  other.action = call.action /\ other.state = call.state

\* the second step, before the political agent acts: a reward has been
\* computed for the economic agent, whose action changed the shared state, so
\* the snapshots of all agents are out of date
C23_Witness ==
    /\ eprPc = "agents"
    /\ eprStep = 1
    /\ eprAgentIdx = 2
    /\ eprReward > 0
    /\ \A i \in DOMAIN eprAgents : eprAgents[i].state # eprState

\* the scenario is what one of the three presets or customScenario returns,
\* up to the step count of a preset
ProducedByFactory(scenario) ==
    \/ \E preset \in {demographicsCollapse, militaryDefence, corporateSustainability} :
          scenario = WithSteps(preset, scenario.steps)
    \/ scenario = customScenario(scenario.name, scenario.initial.value,
                                 scenario.initial.stability, scenario.initial.equity,
                                 scenario.initial.resources, scenario.steps)

\* C29: for every scenario produced by demographicsCollapse, militaryDefence,
\* corporateSustainability or customScenario, the scenario's declared zone is
\* the zone simulate() computes at step 0 from the initial stability.
C29_DeclaredZoneIsStepZone ==
    (ProducedByFactory(eprScenario) /\ eprPc = "agents" /\ eprStep = 0) =>
        eprScenario.zone = eprZone

(***************************************************************************)
(* Properties of EvolutionarySimulator (specification SpecEvo).            *)
(***************************************************************************)
\* C16: a configuration with populationSize < 1, generations < 1 or gene
\* length < 1 is reported as an error before any fitness evaluation: no
\* generation is evaluated and no result is returned.
C16_RejectsInvalidConfig ==
    (evoConfig.populationSize < 1 \/ evoConfig.generations < 1
        \/ \E i \in DOMAIN population : Len(population[i].genes) < 1) =>
        /\ Len(generationHistory) = 0
        /\ evoPc # "done"

BestFitnessNonDecreasing ==
    /\ \A i \in 1..(Len(generationHistory) - 1) :
          generationHistory[i].bestFitness <= generationHistory[i + 1].bestFitness
    /\ (evoPc = "done" /\ Len(generationHistory) >= 1) =>
          evoResult.finalFitness
              >= generationHistory[Len(generationHistory)].bestFitness

eliteCount == (evoConfig.populationSize * evoConfig.selectionPressure) \div 100

\* C8 as stated: with the default fitness, for every valid configuration,
\* bestFitness is non-decreasing from each recorded generation to the next,
\* and finalFitness is at least the last recorded bestFitness.
C8_BestFitnessMonotone == BestFitnessNonDecreasing

\* C8 as amended: the same, for every configuration that keeps an elite, that
\* is, with floor(populationSize * selectionPressure) >= 1.
C8_BestFitnessMonotoneWithElite ==
    eliteCount >= 1 => BestFitnessNonDecreasing

\* a returned run that kept an elite in which a bred individual ended below
\* the best fitness of the first generation while the best fitness rose
C8_Witness ==
    /\ evoPc = "done"
    /\ eliteCount >= 1
    /\ Len(generationHistory) >= 2
    /\ generationHistory[2].bestFitness > generationHistory[1].bestFitness
    /\ \E i \in DOMAIN population :
          population[i].fitness < generationHistory[1].bestFitness

\* C9: after initialize and after every generation of evolve the population
\* holds exactly populationSize individuals, each with the same gene length,
\* for every selectionPressure and mutationRate.
C9_PopulationSizeFixed ==
    /\ evoPc \in {"loop", "breed", "done"} =>
          Len(population) = evoConfig.populationSize
    /\ \A i \in DOMAIN population :
          Len(population[i].genes) = Len(population[1].genes)
    /\ \A i \in DOMAIN newPopulation :
          Len(newPopulation[i].genes) = Len(population[1].genes)
    /\ Len(newPopulation) <= evoConfig.populationSize

\* a returned run of two generations with a negative selectionPressure and
\* three individuals of which bred ones differ from the elite
C9_Witness ==
    /\ evoPc = "done"
    /\ evoGen = 2
    /\ evoConfig.selectionPressure < 0
    /\ Len(population) = 3
    /\ population[1].genes # population[3].genes

\* C10: evolve on a freshly constructed optimizer performs exactly
\* `generations` iterations and returns a generations series with exactly that
\* many entries, numbered 0 .. generations-1 in order, never stopping early
\* whatever the convergence value is.
C10_RunsAllGenerations ==
    /\ Len(generationHistory) <= evoConfig.generations
    /\ evoPc = "done" =>
          /\ evoGen = evoConfig.generations
          /\ Len(evoResult.generations) = evoConfig.generations
          /\ \A i \in DOMAIN evoResult.generations :
                evoResult.generations[i].generation = i - 1

\* a returned run of at least two generations whose convergence value is 1:
\* best and average fitness did not move, and the loop still ran to the end
C10_Witness ==
    /\ evoPc = "done"
    /\ Len(evoResult.generations) >= 2
    /\ evoResult.convergence.shortfall.num = 0
    /\ evoConfig.mutationRate > 0

GenesInRange(pop) ==
    \A i \in DOMAIN pop : \A g \in DOMAIN pop[i].genes :
        0 <= pop[i].genes[g] /\ pop[i].genes[g] <= GeneOne

\* C26: every gene of every individual is in [0,1] after initialize and
\* after every generation, in the population and in the population being
\* built; producing a new generation modifies no individual of the current
\* population, and the elite individuals are carried over with their genes.
C26_GenesInRangeAndKept ==
    [][ /\ GenesInRange(population) /\ GenesInRange(population')
        /\ GenesInRange(newPopulation')
        /\ (evoPc = "breed" /\ evoPc' = "breed") => population' = population
        /\ (evoPc = "breed" /\ evoPc' = "loop") =>
              \A i \in DOMAIN Elite(population, evoConfig) :
                  population'[i].genes = population[i].genes
      ]_vars

\* after the first generation of a population of three with one elite: the
\* elite kept its gene 0.95, and a child holds gene 0, which only the clamp
\* of a mutation below 0 produces
C26_Witness ==
    /\ evoPc = "loop"
    /\ evoGen = 1
    /\ evoConfig.populationSize = 3
    /\ evoConfig.selectionPressure = 50
    /\ population[1].genes = <<19>>
    /\ \E i \in DOMAIN population : population[i].genes = <<0>>

(***************************************************************************)
(* Properties of evolveBusinessModel (specification SpecBusiness).         *)
(***************************************************************************)
\* C27: the fitness assigned to an individual depends only on its gene
\* vector, for evolveBusinessModel with any scenarios list: two individuals
\* with equal genes evaluated in the same generation have equal fitness, and
\* an elite individual carried over unchanged is given the same fitness in the
\* next evaluation.
C27_FitnessDependsOnGenesOnly ==
    [][ /\ evoPc' \in {"breed", "done"} =>
              \A i \in DOMAIN population' : \A j \in DOMAIN population' :
                  population'[i].genes = population'[j].genes =>
                      population'[i].fitness = population'[j].fitness
        /\ (evoPc = "loop" /\ evoGen > 0 /\ evoPc' \in {"breed", "done"}) =>
              \A i \in DOMAIN Elite(population, evoConfig) :
                  \E j \in DOMAIN population' : population'[j] = population[i]
      ]_vars

(***************************************************************************)
(* Properties of ProspectTheorySimulator (specification SpecPT).           *)
(***************************************************************************)
Knowledgeable ==
    {i \in DOMAIN ptAgents :
        ptAgents[i].lokLevel = 0 /\ ptAgents[i].gamma = ptConfig.gamma}

LokCohort ==
    {i \in DOMAIN ptAgents : ptAgents[i].lokLevel > 0 /\ ptAgents[i].gamma = 30}

AllStartWith(wealth) == \A i \in DOMAIN ptAgents : ptAgents[i].wealth = wealth

\* C11 as stated: for every nAgents that initialize accepts, the population
\* consists of two cohorts of equal size, one with lokLevel = 0 and the
\* configured gamma and one with lokLevel > 0 and gamma = 0.3, and every agent
\* starts with wealth = initialWealth.
C11_EqualCohorts ==
    ptPc = "ready" =>
        /\ Len(ptAgents) = ptArgs.nAgents
        /\ Knowledgeable \cup LokCohort = DOMAIN ptAgents
        /\ Cardinality(Knowledgeable) = Cardinality(LokCohort)
        /\ AllStartWith(ptArgs.initialWealth)

\* C11 as amended: for every integer nAgents >= 0 the population holds
\* nAgents agents with wealth = initialWealth; the first floor(nAgents / 2)
\* have lokLevel = 0 and the configured gamma, the other
\* nAgents - floor(nAgents / 2) have gamma = 0.3 and as lokLevel the configured
\* lokLevel, or 1.0 when that is 0: a lokLevel > 0 for every configured
\* lokLevel >= 0.
C11_CohortsByHalf ==
    ptPc = "ready" =>
        /\ ptArgs.nAgents >= 0
        /\ Len(ptAgents) = ptArgs.nAgents
        /\ AllStartWith(ptArgs.initialWealth)
        /\ \A i \in DOMAIN ptAgents :
              IF 2 * i <= ptArgs.nAgents
              THEN ptAgents[i].lokLevel = 0 /\ ptAgents[i].gamma = ptConfig.gamma
              ELSE /\ ptAgents[i].gamma = 30
                   /\ ptAgents[i].lokLevel =
                         (IF ptConfig.lokLevel = 0 THEN 100 ELSE ptConfig.lokLevel)
                   /\ ptConfig.lokLevel >= 0 => ptAgents[i].lokLevel > 0

\* initialize returned for an odd nAgents under the configuration
\* { lokLevel: 0.5 }: one knowledgeable agent, two LOK agents
C11_Witness ==
    /\ ptPc = "ready"
    /\ ptArgs.nAgents = 3
    /\ ptConfig.lokLevel = 50
    /\ Cardinality(Knowledgeable) = 1
    /\ Cardinality(LokCohort) = 2

\* C12: for every gamma, w(0) is exactly 0 and w(1) is exactly 1, the
\* probabilities the agents perceive lie strictly between 0 and 1, and the
\* first and last entries of the returned weightingFunction curve are 0 and 1.
C12_WeightCurveEnds ==
    /\ \A gamma \in {ptConfig.gamma} \cup {ptAgents[i].gamma : i \in DOMAIN ptAgents} :
          /\ weightingFunction(0, gamma) = Ratio(0, 1)
          /\ weightingFunction(POne, gamma) = Ratio(1, 1)
    /\ \A i \in DOMAIN ptAgents : \A draw \in DecisionDraws :
          /\ 0 < pPerceived(ptConfig, ptAgents[i], draw)
          /\ pPerceived(ptConfig, ptAgents[i], draw) < POne
    /\ ptPc = "done" =>
          /\ Len(ptResult.weightingFunction) = 101
          /\ ptResult.weightingFunction[1] = Ratio(0, 1)
          /\ ptResult.weightingFunction[101] = Ratio(1, 1)

\* a returned run of at least one step whose configured gamma is not
\* positive: the formula of lines 143-145 would give 0 or Infinity at p = 1
C12_Witness ==
    /\ ptPc = "done"
    /\ ptConfig.gamma <= 0
    /\ Len(ptResult.wealth) >= 1
    /\ ptResult.weightingFunction[101] = Ratio(1, 1)
    /\ PrelecFormula(POne, ptConfig.gamma) # Ratio(1, 1)

\* C17: when nAgents < 2 or gamma <= 0, initialize and simulate fail: they
\* never return normally, never run a step and never substitute another
\* population (initialize(0) followed by simulate does not run the default
\* population).
C17_FailsFast ==
    /\ ptConfig.gamma <= 0 => ptPc \in {"new", "error"}
    /\ (ptArgs.initialize /\ ptArgs.nAgents < 2) =>
          /\ ptPc \in {"new", "error"}
          /\ Len(ptAgents) # DefaultAgents

\* 0.20 perturbed by uniform noise scaled by the agent's lokLevel, clamped
\* to [0.01, 0.99], in units of 0.00001
NoisyProbability(agent, draw) ==
    Max(POne \div 100,
        Min(99 * (POne \div 100),
            (POne \div 5) + (draw.r1 - 50) * 3 * agent.lokLevel))

\* the reference point perturbed by uniform noise scaled by the agent's
\* lokLevel, in units of 0.01
NoisyReference(agent, draw) ==
    agent.referencePoint + (draw.r2 - 50) * 2 * agent.lokLevel

\* C24: for every configuration, the default lokLevel = 0 included, the
\* deciding agent's own lokLevel decides whether noise is applied: an agent
\* with lokLevel = 0 perceives probability 0.20 and its unperturbed reference
\* point; an agent with lokLevel > 0 has both its perceived probability and
\* its reference point perturbed by noise scaled by its lokLevel.
C24_NoiseByAgentLokLevel ==
    (ptPc = "loop" /\ ptStep < ptArgs.steps) =>
        \A i \in DOMAIN ptAgents : \A draw \in DecisionDraws :
            LET agent == ptAgents[i]
            IN  /\ agent.lokLevel = 0 =>
                      /\ pPerceived(ptConfig, agent, draw) = POne \div 5
                      /\ refPoint(agent, draw) = agent.referencePoint
                /\ agent.lokLevel > 0 =>
                      /\ pPerceived(ptConfig, agent, draw) = NoisyProbability(agent, draw)
                      /\ refPoint(agent, draw) = NoisyReference(agent, draw)

\* the wealth series does not decrease from one step to the next
NonDecreasing(series) ==
    \A k \in 1..(Len(series) - 1) :
        series[k].num * series[k + 1].den <= series[k + 1].num * series[k].den

\* C25: in each step each agent's wealth changes by exactly +50 when it
\* chooses the sure option and by exactly +300 or +0 when it chooses the
\* gamble; no agent's wealth decreases and the per-step average wealth series,
\* as collected and as returned, is non-decreasing.
C25_WealthNeverDecreases ==
    [][ /\ (ptPc = "loop" /\ ptStep' = ptStep + 1) =>
              /\ DOMAIN ptAgents' = DOMAIN ptAgents
              /\ \A i \in DOMAIN ptAgents :
                    ptAgents'[i].wealth - ptAgents[i].wealth \in {0, 50, 300}
              /\ \A i \in DOMAIN ptAgents : \A draw \in DecisionDraws :
                    LET result == simulateAgentDecision(ptConfig, ptAgents[i], draw)
                        change == result.agent.wealth - ptAgents[i].wealth
                    IN  /\ result.choice = 0 => change = 50
                        /\ result.choice = 1 =>
                              change = (IF draw.r4 < 20 THEN 300 ELSE 0)
              /\ average([i \in DOMAIN ptAgents |-> ptAgents[i].wealth]).num
                    <= average([i \in DOMAIN ptAgents |-> ptAgents'[i].wealth]).num
        /\ NonDecreasing(ptSeries'.wealth)
        /\ ptPc' = "done" => NonDecreasing(ptResult'.wealth)
      ]_vars

\* after the first step of a run of two agents: one won the gamble (+300),
\* the other lost it (+0)
C25_Witness ==
    /\ ptPc = "loop"
    /\ ptStep = 1
    /\ ptArgs.initialize
    /\ Len(ptAgents) = 2
    /\ {ptAgents[i].wealth - ptArgs.initialWealth : i \in DOMAIN ptAgents} = {0, 300}

(***************************************************************************)
(* Properties of compareAgents (specification SpecCompare).                *)
(***************************************************************************)
\* this.agents when compareAgents is called
AgentsBeforeCompare ==
    IF ptArgs.initialize
    THEN initialize(ptConfig, ptArgs.nAgents, ptArgs.initialWealth)
    ELSE <<>>

\* C28: after compareAgents returns, the simulator holds the same agents as
\* before the call with the same wealth values; the knowledgeable series is
\* computed only from agents with lokLevel = 0 and the lok series only from
\* agents with lokLevel > 0, also when one of the two cohorts is empty.
C28_CompareRestoresState ==
    /\ cmpPhase = "returned" => ptAgents = AgentsBeforeCompare
    /\ (cmpPhase = "knowledgeable" /\ ptPc = "loop") =>
          \A i \in DOMAIN ptAgents : ptAgents[i].lokLevel = 0
    /\ (cmpPhase = "lok" /\ ptPc = "loop") =>
          \A i \in DOMAIN ptAgents : ptAgents[i].lokLevel > 0

(***************************************************************************)
(* Properties of repeated calls on one instance (specification SpecCalls). *)
(***************************************************************************)
\* the wealth the agents of a new simulator start a run with
FreshWealth ==
    IF ptArgs.initialize /\ ptArgs.nAgents > 0
    THEN ptArgs.initialWealth ELSE DefaultWealth

\* C13: a second simulate/evolve call on the same instance starts as a call
\* on a new instance would: the EPR state and the first history entries are
\* the scenario's initial values, evolve returns exactly `generations`
\* entries, the Prospect Theory agents start from their initial wealth; and
\* the result the earlier call returned still reads as it was returned.
C13_NoStateCarriedOver ==
    callNo >= 2 =>
        /\ (earlier.engine = "epr" /\ eprPc = "loop" /\ eprStep = 0) =>
              eprState = ConstructState(eprScenario)
        /\ (earlier.engine = "epr" /\ Len(eprHistory.value) >= 1) =>
              /\ eprHistory.value[1] = ConstructState(eprScenario).value
              /\ eprHistory.stability[1] = ConstructState(eprScenario).stability
              /\ eprHistory.equity[1] = ConstructState(eprScenario).equity
              /\ eprHistory.reputation[1] = ConstructState(eprScenario).reputation
        /\ (earlier.engine = "evo" /\ evoPc = "done") =>
              Len(evoResult.generations) = evoConfig.generations
        /\ (earlier.engine = "pt" /\ ptPc = "loop" /\ ptStep = 0) =>
              \A i \in DOMAIN ptAgents : ptAgents[i].wealth = FreshWealth
        /\ EarlierAsRead = earlier.result

(***************************************************************************)
(* Properties of WorkflowEngine.executeWorkflow (specification             *)
(* SpecWorkflow)                                                           *)
(***************************************************************************)
\* the step ids of the workflow of call c, in declared order
DeclaredIds(c) ==
    LET steps == GetWorkflow(executions[c].workflowId).steps
    IN [i \in DOMAIN steps |-> steps[i].id]

\* call c created an execution record
HasExecution(c) == executions[c].status # "none"

\* an unknown workflow id throws and leaves no execution record; a known
\* one never throws
UnknownIdThrows(c) ==
    /\ wfCalls[c].pc = "thrown" => executions[c] = NoExecution
    /\ wfCalls[c].pc # "called" =>
         (wfCalls[c].pc = "thrown" <=> ~Registered(wfCalls[c].workflowId))

\* the log of an execution lists its steps one after the other in declared
\* order: each completed step was started and completed before the next one
\* was started, and at most one more step was started
OneAtATimeInOrder(c) ==
    LET e == executions[c]
        ids == DeclaredIds(c)
        done == Len(e.completedSteps)
    IN /\ done <= Len(ids)
       /\ e.completedSteps = SubSeq(ids, 1, done)
       /\ Len(e.logs) >= 2 * done
       /\ \A i \in 1..done :
            /\ e.logs[2 * i - 1] = WorkflowLog(ids[i], "info", "Executing step")
            /\ e.logs[2 * i] = WorkflowLog(ids[i], "info", "Step completed")
       /\ e.status = "running" =>
            /\ wfCalls[c].pc = "await"
            /\ done < Len(ids)
            /\ e.currentStep = ids[done + 1]
            /\ Len(e.logs) = 2 * done + 1
            /\ e.logs[2 * done + 1] =
                 WorkflowLog(ids[done + 1], "info", "Executing step")

\* the execution returned is completed or failed, and completed exactly when
\* every step is in completedSteps
CompletedOrFailed(c) ==
    LET e == executions[c]
    IN /\ wfCalls[c].pc = "returned" <=> e.status \in {"completed", "failed"}
       /\ e.status = "completed" <=> e.completedSteps = DeclaredIds(c)
       /\ e.status = "completed" => Len(e.logs) = 2 * Len(e.completedSteps)

\* a failed execution stopped at the first step that is not completed: no
\* later step was started and the last log entry is an error entry whose
\* stepId is label
FailedAtStep(c, label) ==
    LET e == executions[c]
        ids == DeclaredIds(c)
        done == Len(e.completedSteps)
    IN e.status = "failed" =>
         /\ done < Len(ids)
         /\ e.currentStep = ids[done + 1]
         /\ Len(e.logs) = 2 * done + 2
         /\ e.logs[2 * done + 1] =
              WorkflowLog(ids[done + 1], "info", "Executing step")
         /\ e.logs[Len(e.logs)].level = "error"
         /\ e.logs[Len(e.logs)].stepId = label

\* C30: executeWorkflow runs the steps one at a time in declared order;
\* every execution it returns is 'completed' or 'failed'; completedSteps is
\* always a prefix of the declared step ids; the status is 'completed' iff
\* completedSteps holds every step; a failed execution has as currentStep the
\* first step not completed, started no later step, and ends its log with an
\* error entry for that step (its stepId is currentStep); an unknown
\* workflow id throws without creating an execution record.
C30_ExecutionContract ==
    \A c \in 1..MaxExecutions :
        /\ UnknownIdThrows(c)
        /\ HasExecution(c) =>
             /\ OneAtATimeInOrder(c)
             /\ CompletedOrFailed(c)
             /\ FailedAtStep(c, executions[c].currentStep)

\* the same contract with the error entry labelled as stepId() labels it:
\* 'unknown' when the failed step's id is the empty string
ExecutionContractAsLogged ==
    \A c \in 1..MaxExecutions :
        /\ UnknownIdThrows(c)
        /\ HasExecution(c) =>
             /\ OneAtATimeInOrder(c)
             /\ CompletedOrFailed(c)
             /\ FailedAtStep(c, IF executions[c].currentStep = "" THEN "unknown"
                                ELSE executions[c].currentStep)

\* a workflow whose second step failed after its first step completed, while
\* the other call on the engine threw for an unknown id or completed
FailedAtSecondStep ==
    \E c, d \in 1..MaxExecutions :
        /\ executions[c].status = "failed"
        /\ Len(executions[c].completedSteps) = 1
        /\ executions[c].currentStep # ""
        /\ wfCalls[d].pc = "thrown"

====
